---- MODULE Spec2Model ----
(***************************************************************************)
(* A model of CozeJS (coze.js, key.js, cryptokey.js, canon and alg         *)
(* registry): canonicalisation, canonical base-64 decoding, ECDSA low-S    *)
(* normalisation, Sign / SignCozeRaw / Verify, Meta, key revocation, the   *)
(* key checks Valid and Correct, the algorithm registry and the            *)
(* verification of an array of cozies.                                     *)
(*                                                                         *)
(* Javascript values are tagged tuples: <<"undef">>, <<"num", n>>,         *)
(* <<"str", s>>, <<"bool", b>>, <<"b64", chars>> (a string kept as its     *)
(* sequence of characters), <<"nan">>, and a thrown error is               *)
(* <<"throw", message>>.  Objects are sequences of <<name, value>> pairs   *)
(* in own-property order.  An ArrayBuffer is a sequence of bytes, a BigInt *)
(* is <<"big", sign, magnitude>> with an exact big-endian base-256         *)
(* magnitude without leading zeros.                                        *)
(***************************************************************************)
EXTENDS Integers, Sequences, FiniteSets, TLC

VARIABLES
    keyObj,    \* the Coze key object the calls are made on
    cozeObj,   \* the coze object: [pay |-> object, sig |-> value]
    ret,       \* outcome of the last call
    signed,    \* signatures the native primitive has produced
    hist,      \* what has happened to the current coze (verified, tampered)
    fn,        \* pure-function checks: the function applied, "" before;
               \* stepwise Revoke: the await at which it is suspended
    arg,       \* pure-function checks: the inputs drawn; stepwise Revoke:
               \* its locals
    res        \* pure-function checks: the output

vars == <<keyObj, cozeObj, ret, signed, hist, fn, arg, res>>

----------------------------------------------------------------------------
(* Javascript values *)

JUndef == <<"undef">>
JNaN == <<"nan">>
JNum(n) == <<"num", n>>
JStr(s) == <<"str", s>>
JBool(b) == <<"bool", b>>
JB64(chars) == <<"b64", chars>>
Err(msg) == <<"throw", msg>>

Tag(v) == v[1]
IsErr(v) == Tag(v) = "throw"

ToChars(s) ==
    CASE s = "0" -> <<"0">>
      [] s = "false" -> <<"f", "a", "l", "s", "e">>
      [] s = "null" -> <<"n", "u", "l", "l">>
      [] s = "NaN" -> <<"N", "a", "N">>
      [] s = "undefined" -> <<"u", "n", "d", "e", "f", "i", "n", "e", "d">>
      [] OTHER -> <<>>

\* The text of a string value, comparable with a string literal.
IsText(v, s) ==
    \/ Tag(v) = "str" /\ v[2] = s
    \/ Tag(v) = "b64" /\ v[2] = ToChars(s)

isBool(bool) ==
    ~ \/ bool = JBool(FALSE)
      \/ IsText(bool, "false")
      \/ bool = JUndef
      \/ IsText(bool, "undefined")
      \/ IsText(bool, "")
      \/ bool = JNum(0)
      \/ IsText(bool, "0")
      \/ Tag(bool) = "null"
      \/ IsText(bool, "null")
      \/ IsText(bool, "NaN")
      \/ bool = JNaN
      \/ Tag(bool) \in {"obj", "arr"}

isEmpty(thing) ==
    IF Tag(thing) \in {"obj", "arr"}
    THEN Len(thing[2]) = 0
    ELSE ~isBool(thing)

----------------------------------------------------------------------------
(* Algorithm registry *)

Genus(alg) ==
    CASE alg \in {JStr("ES224"), JStr("ES256"), JStr("ES384"), JStr("ES512")}
           -> JStr("ECDSA")
      [] alg \in {JStr("Ed25519"), JStr("Ed25519ph"), JStr("Ed448")}
           -> JStr("EdDSA")
      [] alg \in {JStr("SHA-224"), JStr("SHA-256"), JStr("SHA-384"),
                  JStr("SHA-512")}
           -> JStr("SHA2")
      [] alg \in {JStr("SHA3-224"), JStr("SHA3-256"), JStr("SHA3-384"),
                  JStr("SHA3-512"), JStr("SHAKE128"), JStr("SHAKE256")}
           -> JStr("SHA3")
      [] OTHER -> Err("alg.Genus: unsupported algorithm")

HashAlg(alg) ==
    CASE alg \in {JStr("ES224"), JStr("SHA-224")} -> JStr("SHA-224")
      [] alg \in {JStr("SHA-256"), JStr("ES256")} -> JStr("SHA-256")
      [] alg \in {JStr("SHA-384"), JStr("ES384")} -> JStr("SHA-384")
      [] alg \in {JStr("SHA-512"), JStr("ES512"), JStr("Ed25519"),
                  JStr("Ed25519ph")} -> JStr("SHA-512")
      [] alg = JStr("SHAKE128") -> JStr("SHAKE128")
      [] alg \in {JStr("SHAKE256"), JStr("Ed448")} -> JStr("SHAKE256")
      [] alg = JStr("SHA3-224") -> JStr("SHA3-224")
      [] alg = JStr("SHA3-256") -> JStr("SHA3-256")
      [] alg = JStr("SHA3-384") -> JStr("SHA3-384")
      [] alg = JStr("SHA3-512") -> JStr("SHA3-512")
      [] OTHER -> Err("alg.HashAlg: unsupported algorithm")

SigSize(alg) ==
    CASE alg = JStr("ES224") -> JNum(56)
      [] alg \in {JStr("ES256"), JStr("Ed25519"), JStr("Ed25519ph")}
           -> JNum(64)
      [] alg = JStr("ES384") -> JNum(96)
      [] alg = JStr("Ed448") -> JNum(114)
      [] alg = JStr("ES512") -> JNum(132)
      [] OTHER -> Err("alg.SigSize: unsupported algorithm")

XSize(alg) ==
    CASE alg \in {JStr("Ed25519"), JStr("Ed25519ph")} -> JNum(32)
      [] alg = JStr("ES224") -> JNum(56)
      [] alg = JStr("Ed448") -> JNum(57)
      [] alg = JStr("ES256") -> JNum(64)
      [] alg = JStr("ES384") -> JNum(96)
      [] alg = JStr("ES512") -> JNum(132)
      [] OTHER -> Err("alg.XSize: unsupported algorithm")

DSize(alg) ==
    CASE alg = JStr("ES224") -> JNum(28)
      [] alg \in {JStr("ES256"), JStr("Ed25519"), JStr("Ed25519ph")}
           -> JNum(32)
      [] alg = JStr("ES384") -> JNum(48)
      [] alg = JStr("Ed448") -> JNum(57)
      [] alg = JStr("ES512") -> JNum(66)
      [] OTHER -> Err("alg.DSize: unsupported algorithm")

Curve(alg) ==
    CASE alg = JStr("ES224") -> JStr("P-224")
      [] alg = JStr("ES256") -> JStr("P-256")
      [] alg = JStr("ES384") -> JStr("P-384")
      [] alg = JStr("ES512") -> JStr("P-521")
      [] alg \in {JStr("Ed25519"), JStr("Ed25519ph")} -> JStr("Curve25519")
      [] alg = JStr("Ed448") -> JStr("Curve448")
      [] OTHER -> Err("alg.Curve: unsupported algorithm")

Family(alg) ==
    CASE alg \in {JStr("ES224"), JStr("ES256"), JStr("ES384"), JStr("ES512"),
                  JStr("Ed25519"), JStr("Ed25519ph"), JStr("Ed448")}
           -> JStr("EC")
      [] alg \in {JStr("SHA-224"), JStr("SHA-256"), JStr("SHA-384"),
                  JStr("SHA-512"), JStr("SHA3-224"), JStr("SHA3-256"),
                  JStr("SHA3-384"), JStr("SHA3-512"), JStr("SHAKE128"),
                  JStr("SHAKE256")}
           -> JStr("SHA")
      [] OTHER -> Err("alg.Family: unsupported algorithm")

HashSize(alg) ==
    LET Size(hash) ==
            CASE hash \in {JStr("SHA-224"), JStr("SHA3-224")} -> JNum(28)
              [] hash \in {JStr("SHA-256"), JStr("SHA3-256"),
                           JStr("SHAKE128")} -> JNum(32)
              [] hash \in {JStr("SHA-384"), JStr("SHA3-384")} -> JNum(48)
              [] hash \in {JStr("SHA-512"), JStr("SHA3-512"),
                           JStr("SHAKE256")} -> JNum(64)
              [] OTHER -> Err("alg.HashSize: unsupported algorithm")
    IN  IF IsErr(HashAlg(alg)) THEN HashAlg(alg) ELSE Size(HashAlg(alg))

Use(alg) ==
    CASE Genus(alg) \in {JStr("EdDSA"), JStr("ECDSA")} -> JStr("sig")
      [] Genus(alg) \in {JStr("SHA2"), JStr("SHA3")} -> JStr("hsh")
      [] IsErr(Genus(alg)) -> Genus(alg)
      [] OTHER -> Err("alg.Use: unsupported algorithm")

\* Math.ceil(4 * n / 3)
Ceil4Thirds(n) == ((4 * n) + 2) \div 3

\* Math.ceil(4 * size / 3) of a size that was set
B64Size(size) ==
    IF size = JUndef THEN JUndef ELSE JNum(Ceil4Thirds(size[2]))

\* Params without its try block: the fields of a signing alg are never set
ParamsHashOnly(alg) ==
    IF IsErr(Genus(alg)) THEN Genus(alg)
    ELSE IF IsErr(Family(alg)) THEN Family(alg)
    ELSE IF IsErr(Use(alg)) THEN Use(alg)
    ELSE IF IsErr(HashAlg(alg)) THEN HashAlg(alg)
    ELSE IF IsErr(HashSize(alg)) THEN HashSize(alg)
    ELSE <<"params",
           [Name |-> alg, Genus |-> Genus(alg), Family |-> Family(alg),
            Use |-> Use(alg), Hash |-> HashAlg(alg),
            HashSize |-> HashSize(alg),
            HashSizeB64 |-> B64Size(HashSize(alg)),
            XSize |-> JUndef, XSizeB64 |-> JUndef, DSize |-> JUndef,
            DSizeB64 |-> JUndef, Curve |-> JUndef, SigSize |-> JUndef,
            SigSizeB64 |-> JUndef]>>

\* Params: <<"params", p>> or the error thrown. The try block sets XSize,
\* DSize, Curve and SigSize in this order and stops at the first that
\* throws; a field that was not set is undefined.
Params(alg) ==
    LET xOk == ~IsErr(XSize(alg))
        dOk == xOk /\ ~IsErr(DSize(alg))
        cOk == dOk /\ ~IsErr(Curve(alg))
        sOk == cOk /\ ~IsErr(SigSize(alg))
        Set(ok, v) == IF ok THEN v ELSE JUndef
    IN  IF IsErr(Genus(alg)) THEN Genus(alg)
        ELSE IF IsErr(Family(alg)) THEN Family(alg)
        ELSE IF IsErr(Use(alg)) THEN Use(alg)
        ELSE IF IsErr(HashAlg(alg)) THEN HashAlg(alg)
        ELSE IF IsErr(HashSize(alg)) THEN HashSize(alg)
        ELSE <<"params",
               [Name |-> alg, Genus |-> Genus(alg), Family |-> Family(alg),
                Use |-> Use(alg), Hash |-> HashAlg(alg),
                HashSize |-> HashSize(alg),
                HashSizeB64 |-> B64Size(HashSize(alg)),
                XSize |-> Set(xOk, XSize(alg)),
                XSizeB64 |-> B64Size(Set(xOk, XSize(alg))),
                DSize |-> Set(dOk, DSize(alg)),
                DSizeB64 |-> B64Size(Set(dOk, DSize(alg))),
                Curve |-> Set(cOk, Curve(alg)),
                SigSize |-> Set(sOk, SigSize(alg)),
                SigSizeB64 |-> B64Size(Set(sOk, SigSize(alg)))]>>

----------------------------------------------------------------------------
(* Exact big-integer arithmetic on big-endian base-256 magnitudes *)

\* the magnitude without its leading zero bytes
Strip(m) ==
    LET nz == {i \in 1..Len(m) : m[i] # 0}
    IN  IF nz = {} THEN <<>>
        ELSE SubSeq(m, CHOOSE i \in nz : \A j \in nz : i <= j, Len(m))

\* a < b for byte sequences of the same length, from position `from` on
LexLessFrom(a, b, from) ==
    \E i \in from..Len(a) :
        /\ a[i] < b[i]
        /\ \A j \in from..(i - 1) : a[j] = b[j]

MagLess(a, b) ==
    IF Len(a) # Len(b) THEN Len(a) < Len(b) ELSE LexLessFrom(a, b, 1)

PadLeft(m, size) == [i \in 1..(size - Len(m)) |-> 0] \o m

\* a - b for a >= b: a byte borrows when the lower bytes of a are less
\* than those of b
MagSub(a, b) ==
    LET pb == PadLeft(b, Len(a))
    IN  Strip(<<>> \o [i \in 1..Len(a) |->
                 (a[i] - pb[i]
                  - (IF LexLessFrom(a, pb, i + 1) THEN 1 ELSE 0) + 256) % 256])

\* the carry into byte i of a + b
CarryInto(a, b, i) ==
    \E j \in (i + 1)..Len(a) :
        /\ a[j] + b[j] > 255
        /\ \A k \in (i + 1)..(j - 1) : a[k] + b[k] = 255

MagAdd(a, b) ==
    LET n == (IF Len(a) > Len(b) THEN Len(a) ELSE Len(b)) + 1
        pa == PadLeft(a, n)
        pb == PadLeft(b, n)
    IN  Strip(<<>> \o [i \in 1..n |->
                 (pa[i] + pb[i]
                  + (IF CarryInto(pa, pb, i) THEN 1 ELSE 0)) % 256])

\* a >> 1
MagShr1(a) ==
    Strip(<<>> \o [i \in 1..Len(a) |->
             (((IF i = 1 THEN 0 ELSE a[i - 1] % 2) * 256) + a[i]) \div 2])

RECURSIVE MagOfInt(_)
MagOfInt(n) == IF n = 0 THEN <<>> ELSE Append(MagOfInt(n \div 256), n % 256)

Big(sign, mag) == <<"big", sign, mag>>

\* a - b on non-negative magnitudes, as a signed BigInt
BigSub(a, b) ==
    IF MagLess(a, b) THEN Big(-1, MagSub(b, a)) ELSE Big(1, MagSub(a, b))

\* a > b for BigInts
BigGreater(a, b) ==
    CASE a[2] = 1 /\ b[2] = 1 -> MagLess(b[3], a[3])
      [] a[2] = 1 /\ b[2] = -1 -> TRUE
      [] a[2] = -1 /\ b[2] = 1 -> FALSE
      [] OTHER -> MagLess(a[3], b[3])

----------------------------------------------------------------------------
(* Curve orders *)

order(alg) ==
    CASE alg = JStr("ES224") ->
        <<255, 255, 255, 255, 255, 255, 255, 255, 255, 255, 255, 255, 255,
          255, 22, 162, 224, 184, 240, 62, 19, 221, 41, 69, 92, 92, 42, 61>>
      [] alg = JStr("ES256") ->
        <<255, 255, 255, 255, 0, 0, 0, 0, 255, 255, 255, 255, 255, 255, 255,
          255, 188, 230, 250, 173, 167, 23, 158, 132, 243, 185, 202, 194,
          252, 99, 37, 81>>
      [] alg = JStr("ES384") ->
        <<255, 255, 255, 255, 255, 255, 255, 255, 255, 255, 255, 255, 255,
          255, 255, 255, 255, 255, 255, 255, 255, 255, 255, 255, 199, 99,
          77, 129, 244, 55, 45, 223, 88, 26, 13, 178, 72, 176, 167, 122,
          236, 236, 25, 106, 204, 197, 41, 115>>
      [] alg = JStr("ES512") ->
        <<1, 255, 255, 255, 255, 255, 255, 255, 255, 255, 255, 255, 255,
          255, 255, 255, 255, 255, 255, 255, 255, 255, 255, 255, 255, 255,
          255, 255, 255, 255, 255, 255, 255, 250, 81, 134, 135, 131, 191,
          47, 150, 107, 127, 204, 1, 72, 247, 9, 165, 208, 59, 181, 201,
          184, 137, 156, 71, 174, 187, 111, 183, 30, 145, 56, 100, 9>>

halfOrder(alg) == MagShr1(order(alg))

CurveAlgs == {JStr("ES224"), JStr("ES256"), JStr("ES384"), JStr("ES512")}

\* CurveOrder without its default case: zero for any other identifier
CurveOrderOrZero(alg) ==
    IF alg \in CurveAlgs THEN Big(1, order(alg)) ELSE Big(1, <<0>>)

CurveOrder(alg) ==
    IF alg \in CurveAlgs THEN Big(1, order(alg))
    ELSE Err("CurveOrder: unsupported curve")

CurveHalfOrder(alg) ==
    IF alg \in CurveAlgs THEN Big(1, halfOrder(alg))
    ELSE Err("CurveHalfOrder: unsupported curve")

----------------------------------------------------------------------------
(* Base 64: atob and btoa of the platform, and the Coze conversions *)

JBuf(bytes) == <<"buf", bytes>>

B64Alphabet ==
    <<"A", "B", "C", "D", "E", "F", "G", "H", "I", "J", "K", "L", "M",
      "N", "O", "P", "Q", "R", "S", "T", "U", "V", "W", "X", "Y", "Z",
      "a", "b", "c", "d", "e", "f", "g", "h", "i", "j", "k", "l", "m",
      "n", "o", "p", "q", "r", "s", "t", "u", "v", "w", "x", "y", "z",
      "0", "1", "2", "3", "4", "5", "6", "7", "8", "9", "+", "/">>

B64Inverse ==
    [c \in {B64Alphabet[i] : i \in 1..64} |->
        (CHOOSE i \in 1..64 : B64Alphabet[i] = c) - 1]

B64Index(c) == B64Inverse[c]

InAlphabet(c) == c \in DOMAIN B64Inverse

Whitespace == {" ", "\n", "\t", "\r"}

IsNotWhitespace(c) == c \notin Whitespace

\* slice(from, to) of an array or string, 0-based and clamped like Javascript
Slice(s, from, to) ==
    LET t == IF to > Len(s) THEN Len(s) ELSE to
    IN  IF from >= t THEN <<>> ELSE SubSeq(s, from + 1, t)

StripPadding(s) ==
    IF Len(s) % 4 # 0 \/ Len(s) = 0 THEN s
    ELSE IF s[Len(s)] # "=" THEN s
    ELSE IF s[Len(s) - 1] # "=" THEN Slice(s, 0, Len(s) - 1)
    ELSE Slice(s, 0, Len(s) - 2)

\* the bytes a run of base-64 characters carries: 6 bits a character, the
\* bits left over after the last whole byte dropped
DecodeChars(s) ==
    <<>> \o [k \in 1..((Len(s) * 3) \div 4) |->
        LET g == 4 * ((k - 1) \div 3)
            i1 == B64Index(s[g + 1])
            i2 == B64Index(s[g + 2])
        IN  CASE (k - 1) % 3 = 0 -> (i1 * 4) + (i2 \div 16)
              [] (k - 1) % 3 = 1 ->
                     ((i2 % 16) * 16) + (B64Index(s[g + 3]) \div 4)
              [] OTHER ->
                     ((B64Index(s[g + 3]) % 4) * 64) + B64Index(s[g + 4])]

\* atob: forgiving-base64 decode
atob(string) ==
    LET DecodeData(s) ==
            IF Len(s) % 4 = 1 \/ \E i \in 1..Len(s) : ~InAlphabet(s[i])
            THEN Err("InvalidCharacterError")
            ELSE JBuf(DecodeChars(s))
    IN  DecodeData(StripPadding(SelectSeq(string, IsNotWhitespace)))

\* btoa: 4 characters for every 3 bytes, padded with "="
btoa(bytes) ==
    <<>> \o [j \in 1..(4 * ((Len(bytes) + 2) \div 3)) |->
        LET g == 3 * ((j - 1) \div 4)
            b1 == bytes[g + 1]
            b2 == IF g + 2 <= Len(bytes) THEN bytes[g + 2] ELSE 0
            b3 == IF g + 3 <= Len(bytes) THEN bytes[g + 3] ELSE 0
        IN  CASE (j - 1) % 4 = 0 -> B64Alphabet[(b1 \div 4) + 1]
              [] (j - 1) % 4 = 1 ->
                     B64Alphabet[((b1 % 4) * 16) + (b2 \div 16) + 1]
              [] (j - 1) % 4 = 2 ->
                     IF g + 2 > Len(bytes) THEN "="
                     ELSE B64Alphabet[((b2 % 16) * 4) + (b3 \div 64) + 1]
              [] OTHER ->
                     IF g + 3 > Len(bytes) THEN "="
                     ELSE B64Alphabet[(b3 % 64) + 1]]

\* string.replace(/from/g, to)
ReplaceAll(s, from, to) ==
    <<>> \o [i \in 1..Len(s) |-> IF s[i] = from THEN to ELSE s[i]]

IsNotPad(c) == c # "="

ArrayBufferTo64ut(buffer) ==
    SelectSeq(ReplaceAll(ReplaceAll(btoa(buffer), "+", "-"), "/", "_"),
              IsNotPad)

B64ToUint8Array(string) ==
    LET Reencode(str, decoded) ==
            IF IsErr(decoded) THEN decoded
            ELSE IF SelectSeq(btoa(decoded[2]), IsNotPad) # str
            THEN Err("Non-canonical base64 string")
            ELSE decoded
        DecodeStd(str) == Reencode(str, atob(str))
    IN  DecodeStd(ReplaceAll(ReplaceAll(string, "-", "+"), "_", "/"))

B64uToArrayBuffer(string) == B64ToUint8Array(string)

----------------------------------------------------------------------------
(* ECDSA low-S normalisation (cryptokey.js) *)

arrayBufferToBigInt(buffer) == Big(1, Strip(buffer))

\* bytes + 1, wrapping around
AddOne(bytes) ==
    <<>> \o [i \in 1..Len(bytes) |->
        IF \A j \in (i + 1)..Len(bytes) : bytes[j] = 255
        THEN (bytes[i] + 1) % 256
        ELSE bytes[i]]

\* the low `size` bytes of a magnitude, left padded with zeros
LowBytes(size, mag) ==
    IF Len(mag) >= size THEN SubSeq(mag, Len(mag) - size + 1, Len(mag))
    ELSE PadLeft(mag, size)

\* writes (bigInt & 0xff) from the last byte down to the first; a negative
\* BigInt yields its two's complement
bigIntToArrayBuffer(size, bigInt) ==
    LET low == LowBytes(size, bigInt[3])
    IN  IF bigInt[2] = 1 THEN low
        ELSE AddOne([i \in 1..size |-> 255 - low[i]])

IsLowS(alg, s) ==
    LET Below(half) ==
            IF IsErr(half) THEN half ELSE JBool(BigGreater(half, s))
    IN  IF Tag(s) # "big" THEN Err("IsLowS: s is not of type bigint")
        ELSE Below(CurveHalfOrder(alg))

\* toLowS that leaves a high S as it is
toLowSNone(alg, s) == s

toLowS(alg, s) ==
    LET Normalise(low) ==
            IF IsErr(low) THEN low
            ELSE IF low = JBool(FALSE) THEN BigSub(CurveOrder(alg)[3], s[3])
            ELSE s
    IN  IF Tag(s) # "big" THEN Err("toLowS: s is not of type bigint")
        ELSE Normalise(IsLowS(alg, s))

sigToS(alg, sig) ==
    LET size == SigSize(alg)
    IN  IF IsErr(size) THEN size
        ELSE arrayBufferToBigInt(Slice(sig, size[2] \div 2, Len(sig)))

IsSigLowS(alg, sig) ==
    LET TestS(bigIntS) ==
            IF IsErr(bigIntS) THEN bigIntS ELSE IsLowS(alg, bigIntS)
    IN  TestS(sigToS(alg, sig))

sigToLowSArrayBuffer(alg, sig) ==
    LET half == SigSize(alg)[2] \div 2
        Rejoin(bigIntNormS) ==
            IF IsErr(bigIntNormS) THEN bigIntNormS
            ELSE JBuf(Slice(sig, 0, half)
                      \o bigIntToArrayBuffer(half, bigIntNormS))
    IN  IF IsErr(SigSize(alg)) THEN SigSize(alg)
        ELSE Rejoin(toLowS(alg, arrayBufferToBigInt(
                                    Slice(sig, half, Len(sig)))))

SigToLowS(alg, sig) ==
    LET EncodeLow(lowSSigAB) ==
            IF IsErr(lowSSigAB) THEN lowSSigAB
            ELSE JB64(ArrayBufferTo64ut(lowSSigAB[2]))
        NormaliseBuffer(ab) ==
            IF IsErr(ab) THEN ab
            ELSE EncodeLow(sigToLowSArrayBuffer(alg, ab[2]))
    IN  NormaliseBuffer(B64uToArrayBuffer(sig))

----------------------------------------------------------------------------
(* Javascript objects: own properties in property order *)

JObj(pairs) == <<"obj", pairs>>
JArr(elems) == <<"arr", elems>>

\* The array index a property name denotes, -1 for an ordinary name.
ArrayIndex(name) ==
    CASE name = "0" -> 0
      [] name = "1" -> 1
      [] name = "2" -> 2
      [] OTHER -> -1

HasProp(obj, name) == \E i \in 1..Len(obj[2]) : obj[2][i][1] = name

\* obj[name]
ObjGet(obj, name) ==
    IF HasProp(obj, name)
    THEN obj[2][CHOOSE i \in 1..Len(obj[2]) : obj[2][i][1] = name][2]
    ELSE JUndef

\* Where a new property goes: array indices first, ascending, then the
\* other names in the order of their creation.
InsertAt(pairs, name) ==
    IF ArrayIndex(name) < 0 THEN Len(pairs) + 1
    ELSE 1 + Cardinality({i \in 1..Len(pairs) :
                 /\ ArrayIndex(pairs[i][1]) >= 0
                 /\ ArrayIndex(pairs[i][1]) < ArrayIndex(name)})

\* obj[name] = value
ObjSet(obj, name, value) ==
    IF HasProp(obj, name)
    THEN JObj(<<>> \o [i \in 1..Len(obj[2]) |->
                 IF obj[2][i][1] = name THEN <<name, value>> ELSE obj[2][i]])
    ELSE LET k == InsertAt(obj[2], name)
         IN  JObj(SubSeq(obj[2], 1, k - 1) \o <<(<<name, value>>)>>
                  \o SubSeq(obj[2], k, Len(obj[2])))

\* delete obj[name]
ObjDelete(obj, name) ==
    LET keep == {i \in 1..Len(obj[2]) : obj[2][i][1] # name}
        nth(k) == CHOOSE i \in keep : Cardinality({j \in keep : j < i}) = k - 1
    IN  JObj(<<>> \o [k \in 1..Cardinality(keep) |-> obj[2][nth(k)]])

\* Object.keys(obj)
ObjKeys(obj) == <<>> \o [i \in 1..Len(obj[2]) |-> obj[2][i][1]]

IsDefinedPair(p) == p[2] # JUndef

\* JSON.stringify(obj): the members in property order, members whose value
\* is undefined left out
JSONstringify(obj) ==
    IF Tag(obj) = "obj" THEN <<"json", SelectSeq(obj[2], IsDefinedPair)>>
    ELSE <<"json", obj>>

----------------------------------------------------------------------------
(* Canonicalisation (canon.js) *)

Canon(obj) == ObjKeys(obj)

RECURSIVE CanonicalLoop(_, _, _, _)
CanonicalLoop(obj, object, can, i) ==
    IF i > Len(can) THEN obj
    ELSE CanonicalLoop(ObjSet(obj, can[i], ObjGet(object, can[i])),
                       object, can, i + 1)

\* Canonical without the canon: the object as it was given
CanonicalNone(object, can) == object

Canonical(object, can) ==
    IF isEmpty(can) THEN object
    ELSE CanonicalLoop(JObj(<<>>), object, can[2], 1)

HasDuplicates(can) ==
    \E i, j \in 1..Len(can) : i < j /\ can[i] = can[j]

CanonicalS(obj, can) == JSONstringify(Canonical(obj, can))

SubtleHashes == {JStr("SHA-256"), JStr("SHA-384"), JStr("SHA-512")}

\* crypto.subtle.digest: an ideal digest, a different input gives a
\* different digest
CanonicalHash(input, hash, can) ==
    IF isEmpty(hash) THEN Err("Hash is not given")
    ELSE IF hash \notin SubtleHashes THEN Err("NotSupportedError")
    ELSE <<"digest", hash, CanonicalS(input, can)>>

\* the b64ut text of the digest
CanonicalHash64(obj, hash, can) ==
    LET DigestText(digest) ==
            IF IsErr(digest) THEN digest
            ELSE <<"digest64", digest[2], digest[3]>>
    IN  DigestText(CanonicalHash(obj, hash, can))

----------------------------------------------------------------------------
(* The platform's ECDSA primitive (crypto.subtle) as the adapter uses it.   *)
(* It is ideal: a signature verifies for a key and a message exactly when   *)
(* the primitive produced it, or its (r, n - s) twin, for that key and      *)
(* message.                                                                 *)

\* The key pair the primitive holds for a curve: public point and scalar.
PubBytes(alg) == <<>> \o [i \in 1..XSize(alg)[2] |-> (i * 7) % 256]
DBytes(alg) == <<>> \o [i \in 1..DSize(alg)[2] |-> ((i * 5) + 1) % 256]

SubtleCurves == {JStr("P-256"), JStr("P-384"), JStr("P-521")}

algFromCrv(crv) ==
    CASE crv = JStr("P-224") -> JStr("ES224")
      [] crv = JStr("P-256") -> JStr("ES256")
      [] crv = JStr("P-384") -> JStr("ES384")
      [] crv = JStr("P-521") -> JStr("ES512")
      [] OTHER -> Err("CryptoKey.ToCozeKey: Unsupported key algorithm.")

\* crypto.subtle.importKey("jwk", jwk, ...)
importKey(jwk, signOrVerify) ==
    IF jwk.crv \notin SubtleCurves THEN Err("NotSupportedError")
    ELSE LET alg == algFromCrv(jwk.crv)
             half == XSize(alg)[2] \div 2
         IN  IF /\ jwk.x = ArrayBufferTo64ut(Slice(PubBytes(alg), 0, half))
                /\ jwk.y = ArrayBufferTo64ut(
                               Slice(PubBytes(alg), half, 2 * half))
                /\ \/ jwk.d = JUndef
                   \/ jwk.d = JB64(ArrayBufferTo64ut(DBytes(alg)))
             THEN <<"cryptokey", [crv |-> jwk.crv, x |-> jwk.x, y |-> jwk.y,
                                  usage |-> signOrVerify]>>
             ELSE Err("DataError")

\* the (r, n - s) twin of a raw signature
Twin(alg, sig) ==
    LET half == SigSize(alg)[2] \div 2
        s == arrayBufferToBigInt(Slice(sig, half, Len(sig)))
    IN  Slice(sig, 0, half)
        \o bigIntToArrayBuffer(half, BigSub(order(alg), s[3]))

\* crypto.subtle.verify(..., cryptoKey, sig, msg)
subtleVerify(cryptoKey, sig, msg, produced) ==
    \E e \in produced :
        /\ e.crv = cryptoKey[2].crv
        /\ e.x = cryptoKey[2].x
        /\ e.y = cryptoKey[2].y
        /\ e.msg = msg
        /\ sig \in {e.sig, Twin(algFromCrv(e.crv), e.sig)}

\* what crypto.subtle.sign adds to the signatures produced: the model keeps
\* the latest one
Produced(cryptoKey, msg, nsig) ==
    {[crv |-> cryptoKey[2].crv, x |-> cryptoKey[2].x, y |-> cryptoKey[2].y,
      msg |-> msg, sig |-> nsig]}

----------------------------------------------------------------------------
(* CryptoKey adapter (cryptokey.js) *)

FromCozeKey(cozeKey, onlyPublic) ==
    LET alg == ObjGet(cozeKey, "alg")
        x == ObjGet(cozeKey, "x")
        d == ObjGet(cozeKey, "d")
        public == isEmpty(d) \/ onlyPublic
        half == XSize(alg)[2] \div 2
        Import(xyab) ==
            IF IsErr(xyab) THEN xyab
            ELSE importKey(
                     [crv |-> Curve(alg),
                      x |-> ArrayBufferTo64ut(Slice(xyab[2], 0, half)),
                      y |-> ArrayBufferTo64ut(
                                Slice(xyab[2], half, Len(xyab[2]))),
                      d |-> IF public THEN JUndef ELSE d],
                     IF public THEN "verify" ELSE "sign")
    IN  IF IsErr(Genus(alg)) THEN Genus(alg)
        ELSE IF Genus(alg) # JStr("ECDSA")
        THEN Err("CryptoKey.FromCozeKey: unsupported CryptoKey algorithm")
        ELSE IF Tag(x) # "b64" THEN Err("TypeError")
        ELSE Import(B64ToUint8Array(x[2]))

\* nsig is the raw signature crypto.subtle.sign returns
SignBuffer(cryptoKey, arrayBuffer, nsig) ==
    LET alg == algFromCrv(cryptoKey[2].crv)
    IN  IF IsErr(alg) THEN alg
        ELSE IF cryptoKey[2].usage # "sign" THEN Err("InvalidAccessError")
        ELSE sigToLowSArrayBuffer(alg, nsig)

SignBufferB64(cryptoKey, arrayBuffer, nsig) ==
    LET EncodeSig(sig) ==
            IF IsErr(sig) THEN sig ELSE JB64(ArrayBufferTo64ut(sig[2]))
    IN  EncodeSig(SignBuffer(cryptoKey, arrayBuffer, nsig))

\* the result and whether crypto.subtle.verify was consulted
\* VerifyArrayBuffer without the verification by the primitive
VerifyArrayBufferLowSOnly(alg, cryptoKey, msg, sig, produced) ==
    [val |-> IsSigLowS(alg, sig), native |-> FALSE]

\* VerifyArrayBuffer without the low-S test
VerifyArrayBufferNoLowS(alg, cryptoKey, msg, sig, produced) ==
    [val |-> JBool(subtleVerify(cryptoKey, sig, msg, produced)),
     native |-> TRUE]

VerifyArrayBuffer(alg, cryptoKey, msg, sig, produced) ==
    LET hash == HashAlg(algFromCrv(cryptoKey[2].crv))
        Decide(low) ==
            IF IsErr(low) THEN [val |-> low, native |-> FALSE]
            ELSE IF low = JBool(FALSE)
            THEN [val |-> JBool(FALSE), native |-> FALSE]
            ELSE IF IsErr(hash) THEN [val |-> hash, native |-> FALSE]
            ELSE [val |-> JBool(subtleVerify(cryptoKey, sig, msg, produced)),
                  native |-> TRUE]
    IN  Decide(IsSigLowS(alg, sig))

VerifyMsg(alg, cryptoKey, msg, sig, produced) ==
    LET VerifyBuffer(ab) ==
            IF IsErr(ab) THEN [val |-> ab, native |-> FALSE]
            ELSE VerifyArrayBuffer(alg, cryptoKey, msg, ab[2], produced)
    IN  IF Tag(sig) # "b64" THEN [val |-> Err("TypeError"), native |-> FALSE]
        ELSE VerifyBuffer(B64uToArrayBuffer(sig[2]))

----------------------------------------------------------------------------
(* Coze keys (key.js) *)

TmbCanon == JArr(<<"alg", "x">>)

\* Thumbprint over the whole key instead of its alg and x
ThumbprintOfKey(cozeKey) ==
    CanonicalHash64(cozeKey, HashAlg(ObjGet(cozeKey, "alg")), JUndef)

Thumbprint(cozeKey) ==
    IF isEmpty(ObjGet(cozeKey, "alg")) \/ isEmpty(ObjGet(cozeKey, "x"))
    THEN Err("Coze.Thumbprint: alg or x is empty.")
    ELSE LET hash == HashAlg(ObjGet(cozeKey, "alg"))
         IN  IF IsErr(hash) THEN hash
             ELSE CanonicalHash64(cozeKey, hash, TmbCanon)

\* parseInt: a number is itself, a string of digits is its number, any
\* other value is NaN
parseInt(v) ==
    CASE Tag(v) = "num" -> v
      [] Tag(v) = "str" /\ v[2] = "1" -> JNum(1)
      [] Tag(v) = "str" /\ v[2] = "0" -> JNum(0)
      [] OTHER -> JNaN

IsRevoked(cozeKey) ==
    LET rvk == ObjGet(cozeKey, "rvk")
        n == parseInt(rvk)
    IN  ~(isEmpty(rvk) \/ ~(Tag(n) = "num" /\ n[2] > 0))

----------------------------------------------------------------------------
(* Sign and Verify (coze.js) *)

Ok == <<"ok">>

\* the UTF-8 bytes of a string: one buffer per text
SToArrayBuffer(string) == <<"utf8", string>>

\* SignPay: the signature or the error, and what the primitive produced
SignPay(pay, cozeKey, nsig) ==
    LET Signed(cryptoKey, sig) ==
            [val |-> sig,
             produced |-> IF IsErr(sig) THEN {}
                          ELSE Produced(cryptoKey, SToArrayBuffer(pay), nsig)]
        SignWith(cryptoKey) ==
            IF IsErr(cryptoKey) THEN [val |-> cryptoKey, produced |-> {}]
            ELSE Signed(cryptoKey,
                        SignBufferB64(cryptoKey, SToArrayBuffer(pay), nsig))
    IN  SignWith(FromCozeKey(cozeKey, FALSE))

\* Sign: the coze as the call leaves it, the value returned or the error
\* thrown, and the signature produced
Sign(coze, cozeKey, canon, now, nsig) ==
    LET SetSig(pay, sig) ==
            IF IsErr(sig.val)
            THEN [coze |-> [coze EXCEPT !.pay = pay], produced |-> {},
                  val |-> sig.val]
            ELSE [coze |-> [pay |-> pay, sig |-> sig.val], val |-> Ok,
                  produced |-> sig.produced]
        SignCanonical(pay) ==
            SetSig(pay, SignPay(JSONstringify(pay), cozeKey, nsig))
        SetCanonical(pay) ==
            SignCanonical(IF ~isEmpty(canon) THEN Canonical(pay, canon)
                          ELSE pay)
        SetMeta(pay, tmb) ==
            IF IsErr(tmb)
            THEN [coze |-> [coze EXCEPT !.pay = pay], produced |-> {},
                  val |-> tmb]
            ELSE SetCanonical(ObjSet(ObjSet(pay, "tmb", tmb), "iat",
                                     JNum(now)))
    IN  IF IsRevoked(cozeKey)
        THEN [coze |-> coze, produced |-> {},
              val |-> Err("SignCoze: Cannot sign with revoked key.")]
        ELSE SetMeta(ObjSet(coze.pay, "alg", ObjGet(cozeKey, "alg")),
                     Thumbprint(cozeKey))

\* SignCozeRaw that sets alg, tmb and iat as Sign does
SignCozeRawAsSign(coze, cozeKey, canon, nsig) ==
    Sign(coze, cozeKey, canon, 1, nsig)

SignCozeRaw(coze, cozeKey, canon, nsig) ==
    LET SetRawSig(pay, sig) ==
            IF IsErr(sig.val)
            THEN [coze |-> [coze EXCEPT !.pay = pay], produced |-> {},
                  val |-> sig.val]
            ELSE [coze |-> [pay |-> pay, sig |-> sig.val], val |-> Ok,
                  produced |-> sig.produced]
        SignRaw(pay) ==
            SetRawSig(pay, SignPay(JSONstringify(pay), cozeKey, nsig))
    IN  IF IsRevoked(cozeKey)
        THEN [coze |-> coze, produced |-> {},
              val |-> Err("SignCozeRaw: Cannot sign with revoked key.")]
        ELSE IF /\ ~isEmpty(ObjGet(coze.pay, "alg"))
                /\ ObjGet(coze.pay, "alg") # ObjGet(cozeKey, "alg")
        THEN [coze |-> coze, produced |-> {},
              val |-> Err("SignCozeRaw: Coze key alg mismatch")]
        ELSE IF /\ ~isEmpty(ObjGet(coze.pay, "tmb"))
                /\ ObjGet(coze.pay, "tmb") # ObjGet(cozeKey, "tmb")
        THEN [coze |-> coze, produced |-> {},
              val |-> Err("SignCozeRaw: Coze key tmb mismatch")]
        ELSE SignRaw(IF ~isEmpty(canon) THEN Canonical(coze.pay, canon)
                     ELSE coze.pay)

VerifyPay(pay, cozekey, sig, produced) ==
    LET VerifyWith(cryptoKey) ==
            IF IsErr(cryptoKey) THEN [val |-> cryptoKey, native |-> FALSE]
            ELSE VerifyMsg(ObjGet(cozekey, "alg"), cryptoKey,
                           SToArrayBuffer(pay), sig, produced)
    IN  VerifyWith(FromCozeKey(cozekey, TRUE))

\* Verify without the comparison of pay.alg and pay.tmb with the key
VerifyUnchecked(coze, cozeKey, produced) ==
    VerifyPay(JSONstringify(coze.pay), cozeKey, coze.sig, produced)

Verify(coze, cozeKey, produced) ==
    IF /\ ~isEmpty(ObjGet(coze.pay, "alg"))
       /\ ObjGet(coze.pay, "alg") # ObjGet(cozeKey, "alg")
    THEN [val |-> Err("VerifyCoze: Coze key alg mismatch"), native |-> FALSE]
    ELSE IF /\ ~isEmpty(ObjGet(coze.pay, "tmb"))
            /\ ObjGet(coze.pay, "tmb") # ObjGet(cozeKey, "tmb")
    THEN [val |-> Err("VerifyCoze: Coze key tmb mismatch"), native |-> FALSE]
    ELSE VerifyPay(JSONstringify(coze.pay), cozeKey, coze.sig, produced)

\* Revoke: the key and the coze as the call leaves them
Revoke(cozeKey, msg, now, iat, nsig) ==
    LET prevRvk == ObjGet(cozeKey, "rvk")
        SetRvk(key, signedCoze) ==
            IF IsErr(signedCoze.val)
            THEN [key |-> key, coze |-> JUndef, produced |-> {},
                  val |-> signedCoze.val]
            ELSE [key |-> ObjSet(key, "rvk",
                                 IF prevRvk # JUndef THEN prevRvk
                                 ELSE ObjGet(signedCoze.coze.pay, "rvk")),
                  coze |-> signedCoze.coze, produced |-> signedCoze.produced,
                  val |-> Ok]
        SignRevoke(key, pay) ==
            SetRvk(key, Sign([pay |-> ObjSet(pay, "rvk", JNum(now)),
                              sig |-> JUndef],
                             key, JUndef, iat, nsig))
    IN  IF isEmpty(cozeKey)
        THEN [key |-> cozeKey, coze |-> JUndef, produced |-> {},
              val |-> Err("CozeKey.Revoke: Private key not set.")]
        ELSE SignRevoke(ObjDelete(cozeKey, "rvk"),
                        IF ~isEmpty(msg) THEN JObj(<< <<"msg", msg>> >>)
                        ELSE JObj(<<>>))

\* Meta: the meta object <<"meta", m>> or the error thrown; a field that is
\* not set is undefined
Meta(coze, algParam) ==
    LET pay == coze.pay
        payAlg == ObjGet(pay, "alg")
        alg == IF isEmpty(algParam) THEN payAlg ELSE algParam
        Field(name) ==
            IF ~isEmpty(ObjGet(pay, name)) THEN ObjGet(pay, name) ELSE JUndef
        WithCzd(metaAlg, cad, czd) ==
            IF IsErr(czd) THEN czd
            ELSE <<"meta", [alg |-> metaAlg, iat |-> Field("iat"),
                            tmb |-> Field("tmb"), typ |-> Field("typ"),
                            can |-> Canon(pay), cad |-> cad,
                            sig |-> IF ~isEmpty(coze.sig) THEN coze.sig
                                    ELSE JUndef,
                            czd |-> czd]>>
        WithCad(metaAlg, cad) ==
            IF IsErr(cad) THEN cad
            ELSE WithCzd(metaAlg, cad,
                         IF ~isEmpty(coze.sig)
                         THEN CanonicalHash64(
                                  JObj(<< <<"cad", cad>>,
                                          <<"sig", coze.sig>> >>),
                                  metaAlg, JUndef)
                         ELSE JUndef)
        WithAlg(metaAlg) ==
            IF IsErr(metaAlg) THEN metaAlg
            ELSE IF isEmpty(metaAlg) THEN Err("Meta: no alg provided for coze.")
            ELSE WithCad(metaAlg, CanonicalHash64(pay, metaAlg, JUndef))
    IN  IF isEmpty(pay) THEN Err("Meta: coze.pay must exist.")
        ELSE IF isEmpty(algParam) /\ isEmpty(payAlg)
        THEN Err("Meta: either coze.pay.alg or parameter alg must be set.")
        ELSE IF ~isEmpty(payAlg) /\ alg # payAlg
        THEN Err("Meta: coze.pay.alg and parameter alg do not match.")
        ELSE IF IsErr(HashAlg(alg)) THEN HashAlg(alg)
        ELSE WithAlg(IF ~isEmpty(payAlg) THEN HashAlg(payAlg)
                     ELSE HashAlg(alg))

----------------------------------------------------------------------------
(* Correct (key.js) *)

\* value.length: the number of characters of a text, undefined otherwise
Length(v) ==
    CASE Tag(v) = "b64" -> JNum(Len(v[2]))
      [] Tag(v) = "str" -> JNum(Len(v[2]))
      [] Tag(v) = "digest64" -> JNum(Ceil4Thirds(HashSize(v[2])[2]))
      [] OTHER -> JUndef

\* Correct: what it returns or throws, and whether the signature it made
\* over "Test Signing" was given to VerifyArrayBuffer
Correct(ck, nsig) ==
    LET alg == ObjGet(ck, "alg")
        tmb == ObjGet(ck, "tmb")
        x == ObjGet(ck, "x")
        d == ObjGet(ck, "d")
        mldBuffer == SToArrayBuffer(JStr("Test Signing"))
        Done(v) == [val |-> v, roundTrip |-> FALSE]
        Verdict(result) ==
            IF IsErr(result.val) THEN Done(result.val)
            ELSE [val |-> JBool(result.val = JBool(TRUE)),
                  roundTrip |-> TRUE]
        VerifyWith(cryptoKey, sig, pubKey) ==
            IF IsErr(pubKey) THEN Done(pubKey)
            ELSE Verdict(VerifyArrayBuffer(
                             alg, pubKey, mldBuffer, sig[2],
                             Produced(cryptoKey, mldBuffer, nsig)))
        SignWith(cryptoKey, sig) ==
            IF IsErr(sig) THEN Done(sig)
            ELSE VerifyWith(cryptoKey, sig, FromCozeKey(ck, TRUE))
        RoundTrip(cryptoKey) ==
            IF IsErr(cryptoKey) THEN Done(cryptoKey)
            ELSE SignWith(cryptoKey, SignBuffer(cryptoKey, mldBuffer, nsig))
        CheckD ==
            IF ~isEmpty(d) /\ ~isEmpty(x)
            THEN RoundTrip(FromCozeKey(ck, FALSE))
            ELSE Done(JBool(TRUE))
        CheckTmb(t) ==
            IF IsErr(t) THEN Done(t)
            ELSE IF tmb # t THEN Done(JBool(FALSE))
            ELSE CheckD
        WithParams(p) ==
            IF IsErr(p) THEN Done(p)
            ELSE IF isEmpty(tmb) /\ isEmpty(x) /\ isEmpty(d)
            THEN Done(JBool(FALSE))
            ELSE IF isEmpty(x) /\ isEmpty(d)
            THEN Done(JBool(~(isEmpty(tmb) \/ Length(tmb) # p[2].HashSizeB64)))
            ELSE IF ~isEmpty(x) /\ Length(x) # p[2].XSizeB64
            THEN Done(JBool(FALSE))
            ELSE IF ~isEmpty(tmb) /\ ~isEmpty(x)
            THEN CheckTmb(Thumbprint(ck))
            ELSE CheckD
    IN  IF Tag(ck) \notin {"obj", "arr"} THEN Done(JBool(FALSE))
        ELSE IF isEmpty(alg) THEN Done(JBool(FALSE))
        ELSE WithParams(Params(alg))

\* Valid without its try and catch: an error of SignPay is thrown
ValidUncaught(privateCozeKey, nsig) ==
    LET msg == JStr("7AtyaCHO2BAG06z0W1tOQlZFWbhxGgqej4k9-HWP3DE-zshRbrE-69DIfgY704_FDYez7h_rEI1WQVKhv5Hd5Q")
        Check(sig) ==
            IF IsErr(sig.val) THEN [val |-> sig.val, roundTrip |-> FALSE]
            ELSE [val |-> VerifyPay(msg, privateCozeKey, sig.val,
                                    sig.produced).val,
                  roundTrip |-> TRUE]
    IN  Check(SignPay(msg, privateCozeKey, nsig))

\* Valid: what it returns or throws, and whether VerifyPay was given the
\* signature made. The catch takes what SignPay throws; the promise of
\* VerifyPay is returned as it is, so what VerifyPay throws is thrown.
Valid(privateCozeKey, nsig) ==
    LET msg == JStr("7AtyaCHO2BAG06z0W1tOQlZFWbhxGgqej4k9-HWP3DE-zshRbrE-69DIfgY704_FDYez7h_rEI1WQVKhv5Hd5Q")
        Check(sig) ==
            IF IsErr(sig.val) THEN [val |-> JBool(FALSE), roundTrip |-> FALSE]
            ELSE [val |-> VerifyPay(msg, privateCozeKey, sig.val,
                                    sig.produced).val,
                  roundTrip |-> TRUE]
    IN  IF isEmpty(ObjGet(privateCozeKey, "d"))
        THEN [val |-> JBool(FALSE), roundTrip |-> FALSE]
        ELSE Check(SignPay(msg, privateCozeKey, nsig))

----------------------------------------------------------------------------
(* Verification of an array of cozies (standard_bulk.js) *)

\* The array is <<"arr", elements>>, a lone coze given in its place is
\* <<"coze", c>>, the record returned is <<"rec", v>>.

\* c.coze when the element encapsulates its coze, the element otherwise
Unwrapped(c) == IF "coze" \in DOMAIN c THEN c.coze ELSE c

RECURSIVE VerifyCozeArrayLoop(_, _, _, _, _)
\* the loop from element i on; a throw of Verify ends the call
VerifyCozeArrayLoop(v, copy, i, cozeKey, produced) ==
    LET Count(c, valid) ==
            IF IsErr(valid) THEN valid
            ELSE IF valid = JBool(TRUE)
            THEN VerifyCozeArrayLoop(
                     [v EXCEPT !.VerifiedCount = @ + 1],
                     copy, i + 1, cozeKey, produced)
            ELSE VerifyCozeArrayLoop(
                     [v EXCEPT !.FailedCount = @ + 1,
                               !.FailedCozies = Append(@, c),
                               !.FailedPosition = Append(@, i - 1)],
                     copy, i + 1, cozeKey, produced)
        Element(c) == Count(c, Verify(c, cozeKey, produced).val)
    IN  IF i > Len(copy)
        THEN <<"rec", IF v.FailedCount = 0 /\ v.VerifiedCount > 1
                      THEN [v EXCEPT !.VerifiedAll = TRUE]
                      ELSE v>>
        ELSE Element(Unwrapped(copy[i]))

\* VerifyCozeArray that leaves the last element of the array out
VerifyCozeArrayDropLast(coze, cozeKey, produced) ==
    IF Tag(coze) # "arr" THEN Verify(coze[2], cozeKey, produced).val
    ELSE VerifyCozeArrayLoop(
             [VerifiedAll |-> FALSE, VerifiedCount |-> 0, FailedCount |-> 0,
              FailedCozies |-> <<>>, FailedPosition |-> <<>>],
             SubSeq(coze[2], 1, Len(coze[2]) - 1), 1, cozeKey, produced)

VerifyCozeArray(coze, cozeKey, produced) ==
    IF Tag(coze) # "arr" THEN Verify(coze[2], cozeKey, produced).val
    ELSE VerifyCozeArrayLoop(
             [VerifiedAll |-> FALSE, VerifiedCount |-> 0, FailedCount |-> 0,
              FailedCozies |-> <<>>, FailedPosition |-> <<>>],
             coze[2], 1, cozeKey, produced)

----------------------------------------------------------------------------
(* Inputs of the calls *)

\* clock readings are 1..MaxTime
MaxTime == 1
\* the primitive's S values lie within MaxOff of 0, of n >> 1 and of n
MaxOff == 1

TimeSet == 1..MaxTime

SignAlgs == {JStr("ES256"), JStr("ES384"), JStr("ES512")}

RvkValues == {JUndef, JNum(0), JNum(1), JBool(TRUE), JStr("true")}

\* a key as NewKey builds it, with or without its private component d and
\* with an rvk field
KeyOf(alg, withD, rvk) ==
    LET WithTmb(pub, k) ==
            IF rvk = JUndef THEN ObjSet(k, "tmb", Thumbprint(pub))
            ELSE ObjSet(ObjSet(k, "tmb", Thumbprint(pub)), "rvk", rvk)
        WithD(pub) ==
            WithTmb(pub, IF withD
                         THEN ObjSet(pub, "d",
                                     JB64(ArrayBufferTo64ut(DBytes(alg))))
                         ELSE pub)
    IN  WithD(JObj(<< <<"alg", alg>>,
                      <<"x", JB64(ArrayBufferTo64ut(PubBytes(alg)))>> >>))

SignKeys == {KeyOf(alg, withD, JUndef) : alg \in SignAlgs, withD \in BOOLEAN}

RevokeKeys ==
    {KeyOf(JStr("ES256"), withD, rvk) : withD \in BOOLEAN, rvk \in RvkValues}

\* payloads to sign: two without alg and tmb, one that carries the alg of
\* no key used here, one that carries the thumbprint of some other key
Pays ==
    {JObj(<< <<"msg", JStr("Coze Rocks")>> >>),
     JObj(<< <<"typ", JStr("cyphr.me/msg")>>,
             <<"msg", JStr("Test Message")>> >>),
     JObj(<< <<"msg", JStr("Coze Rocks")>>, <<"alg", JStr("ES224")>> >>),
     JObj(<< <<"msg", JStr("Coze Rocks")>>,
             <<"tmb", JStr("0J4_DBgT1yPn8ibUkkQh89DATaxWvwh8oiqtcygfem8")>> >>)}

\* no canon, a canon with the fields Sign sets, a canon without them
Canons ==
    {JUndef, JArr(<<"alg", "iat", "msg", "tmb", "typ">>), JArr(<<"msg">>)}

RevokeMsgs == {JUndef, JStr("Test revoke.")}

\* the S values crypto.subtle.sign returns, 0 < S < n, taken next to 0, to
\* half the order and to the order
NativeS(alg) ==
    UNION {{MagOfInt(k),
            MagSub(halfOrder(alg), MagOfInt(k)),
            MagAdd(halfOrder(alg), MagOfInt(k)),
            MagSub(order(alg), MagOfInt(k))} : k \in 1..MaxOff}
    \cup {halfOrder(alg)}

NativeR(alg) ==
    <<>> \o [i \in 1..(SigSize(alg)[2] \div 2) |-> IF i = 1 THEN 0 ELSE 17]

NativeSigs(alg) ==
    {NativeR(alg) \o bigIntToArrayBuffer(SigSize(alg)[2] \div 2, Big(1, s)) :
        s \in NativeS(alg)}

\* one signature of the primitive, its S next to 0
OneSig(alg) ==
    NativeR(alg)
    \o bigIntToArrayBuffer(SigSize(alg)[2] \div 2, Big(1, MagOfInt(1)))

\* the bytes of a signature an attacker changes: the first of R, the first
\* and the last of S
TamperPos(alg) == {1, (SigSize(alg)[2] \div 2) + 1, SigSize(alg)[2]}

\* what is added to the byte; 2k + 1 takes S = (n >> 1) - k to n - S
TamperDelta == {(2 * k) + 1 : k \in 0..MaxOff}

\* a value with one of its bytes changed
Altered(v) == <<"altered", v>>

----------------------------------------------------------------------------
(* One key and one coze: sign, verify, tamper, normalise *)

NoCoze == [pay |-> JObj(<<>>), sig |-> JUndef]

NoHist ==
    [origin |-> "none", verified |-> FALSE, tamper |-> "none", field |-> "",
     origSig |-> JUndef, revokeReturned |-> FALSE, rvkWasPositive |-> FALSE,
     conflict |-> FALSE, payBefore |-> JUndef, canon |-> JUndef,
     keyBefore |-> JUndef]

KeyAlg == ObjGet(keyObj, "alg")

RvkPositive(k) == Tag(ObjGet(k, "rvk")) = "num" /\ ObjGet(k, "rvk")[2] > 0

InitWith(keys) ==
    /\ keyObj \in keys
    /\ cozeObj = NoCoze
    /\ ret = [op |-> "none", val |-> JUndef, native |-> FALSE]
    /\ signed = {}
    /\ hist = [NoHist EXCEPT !.rvkWasPositive = RvkPositive(keyObj)]
    /\ fn = ""
    /\ arg = <<>>
    /\ res = JUndef

Init == InitWith(SignKeys)

\* the payload carries an alg or a tmb that is not the key's
Conflicts(pay, cozeKey) ==
    \/ /\ ~isEmpty(ObjGet(pay, "alg"))
       /\ ObjGet(pay, "alg") # ObjGet(cozeKey, "alg")
    \/ /\ ~isEmpty(ObjGet(pay, "tmb"))
       /\ ObjGet(pay, "tmb") # ObjGet(cozeKey, "tmb")

\* the caller's coze object after Sign or SignCozeRaw of the payload `pay`;
\* hist keeps the payload, the canon and the key as they were given
Signed(op, r, pay, canon) ==
    /\ cozeObj' = r.coze
    /\ ret' = [op |-> op, val |-> r.val, native |-> FALSE]
    /\ signed' = IF IsErr(r.val) THEN signed ELSE r.produced
    /\ hist' = [hist EXCEPT !.origin = IF IsErr(r.val) THEN "none" ELSE op,
                            !.verified = FALSE, !.tamper = "none",
                            !.field = "", !.origSig = r.coze.sig,
                            !.conflict = Conflicts(pay, keyObj),
                            !.payBefore = pay, !.canon = canon,
                            !.keyBefore = keyObj]
    /\ UNCHANGED <<keyObj, fn, arg, res>>

SignCall(sigs) ==
    \E pay \in Pays, canon \in Canons, now \in TimeSet, nsig \in sigs :
        Signed("Sign", Sign([pay |-> pay, sig |-> JUndef], keyObj, canon,
                            now, nsig), pay, canon)

SignCozeRawCall(sigs) ==
    \E pay \in Pays, canon \in Canons, nsig \in sigs :
        Signed("SignCozeRaw",
               SignCozeRaw([pay |-> pay, sig |-> JUndef], keyObj, canon,
                           nsig), pay, canon)

\* a new coze is signed, with any signature the primitive can return
SignAct == cozeObj = NoCoze /\ SignCall(NativeSigs(KeyAlg))

SignCozeRawAct == cozeObj = NoCoze /\ SignCozeRawCall(NativeSigs(KeyAlg))

Verified(r) ==
    /\ ret' = [op |-> "Verify", val |-> r.val, native |-> r.native]
    /\ hist' = [hist EXCEPT !.verified =
                   \/ hist.verified
                   \/ hist.tamper = "none" /\ r.val = JBool(TRUE)]
    /\ UNCHANGED <<keyObj, cozeObj, signed, fn, arg, res>>

VerifyAct ==
    /\ hist.origin # "none"
    /\ Verified(Verify(cozeObj, keyObj, signed))

\* a byte of the canonical payload is changed: the value of one field
TamperPayAct ==
    /\ hist.verified
    /\ hist.tamper = "none"
    /\ \E i \in 1..Len(cozeObj.pay[2]) :
        /\ cozeObj.pay[2][i][2] # JUndef
        /\ cozeObj' = [cozeObj EXCEPT !.pay = ObjSet(cozeObj.pay,
                          cozeObj.pay[2][i][1], Altered(cozeObj.pay[2][i][2]))]
        /\ hist' = [hist EXCEPT !.tamper = "pay",
                                !.field = cozeObj.pay[2][i][1]]
    /\ ret' = [op |-> "Tamper", val |-> JUndef, native |-> FALSE]
    /\ UNCHANGED <<keyObj, signed, fn, arg, res>>

\* the signature text of `bytes` with byte pos raised by delta
ChangedSig(bytes, pos, delta) ==
    JB64(ArrayBufferTo64ut([bytes EXCEPT ![pos] = (bytes[pos] + delta) % 256]))

\* a byte of the decoded signature is changed
TamperSigAct ==
    /\ hist.verified
    /\ hist.tamper = "none"
    /\ \E pos \in TamperPos(KeyAlg), delta \in TamperDelta :
        cozeObj' = [cozeObj EXCEPT !.sig =
                       ChangedSig(B64uToArrayBuffer(cozeObj.sig[2])[2], pos,
                                  delta)]
    /\ hist' = [hist EXCEPT !.tamper = "sig"]
    /\ ret' = [op |-> "Tamper", val |-> JUndef, native |-> FALSE]
    /\ UNCHANGED <<keyObj, signed, fn, arg, res>>

\* S is replaced by n - S
SubstituteSAct ==
    /\ hist.verified
    /\ hist.tamper = "none"
    /\ cozeObj' = [cozeObj EXCEPT !.sig = JB64(ArrayBufferTo64ut(
                      Twin(KeyAlg, B64uToArrayBuffer(cozeObj.sig[2])[2])))]
    /\ hist' = [hist EXCEPT !.tamper = "twin"]
    /\ ret' = [op |-> "Tamper", val |-> JUndef, native |-> FALSE]
    /\ UNCHANGED <<keyObj, signed, fn, arg, res>>

Normalised(r) ==
    /\ cozeObj' = IF IsErr(r) THEN cozeObj ELSE [cozeObj EXCEPT !.sig = r]
    /\ ret' = [op |-> "SigToLowS", val |-> r, native |-> FALSE]
    /\ hist' = [hist EXCEPT !.tamper = IF hist.tamper = "twin" THEN "relow"
                                       ELSE hist.tamper]
    /\ UNCHANGED <<keyObj, signed, fn, arg, res>>

\* coze.sig = await SigToLowS(alg, coze.sig)
SigToLowSAct ==
    /\ hist.origin # "none"
    /\ hist.tamper \in {"none", "twin"}
    /\ Tag(cozeObj.sig) = "b64"
    /\ Normalised(SigToLowS(KeyAlg, cozeObj.sig[2]))

Next ==
    \/ SignAct
    \/ SignCozeRawAct
    \/ VerifyAct
    \/ TamperPayAct
    \/ TamperSigAct
    \/ SubstituteSAct
    \/ SigToLowSAct

Spec == Init /\ [][Next]_vars

----------------------------------------------------------------------------
(* The same calls with a key object whose tmb field is not its thumbprint *)

\* a private key that carries, in tmb, the thumbprint of some other key
StaleKeys ==
    {ObjSet(KeyOf(alg, TRUE, JUndef), "tmb",
            JStr("0J4_DBgT1yPn8ibUkkQh89DATaxWvwh8oiqtcygfem8")) :
         alg \in SignAlgs}

InitStale == InitWith(StaleKeys)

SpecStale == InitStale /\ [][Next]_vars

----------------------------------------------------------------------------
(* One key through Revoke, Sign, SignCozeRaw and Verify in any order *)

InitRevoke == InitWith(RevokeKeys)

Revoked(r) ==
    /\ keyObj' = r.key
    /\ cozeObj' = IF IsErr(r.val) THEN NoCoze ELSE r.coze
    /\ ret' = [op |-> "Revoke", val |-> r.val, native |-> FALSE]
    /\ signed' = IF IsErr(r.val) THEN signed ELSE r.produced
    /\ hist' = [hist EXCEPT
                  !.origin = IF IsErr(r.val) THEN "none" ELSE "Revoke",
                  !.verified = FALSE, !.tamper = "none", !.field = "",
                  !.conflict = FALSE,
                  !.origSig = IF IsErr(r.val) THEN JUndef ELSE r.coze.sig,
                  !.revokeReturned = hist.revokeReturned \/ ~IsErr(r.val),
                  !.rvkWasPositive =
                      hist.rvkWasPositive \/ RvkPositive(r.key)]
    /\ UNCHANGED <<fn, arg, res>>

\* Revoke reads the clock for rvk, then Sign reads it for iat
RevokeAct ==
    \E msg \in RevokeMsgs, now \in TimeSet, iat \in TimeSet :
        /\ now <= iat
        /\ Revoked(Revoke(keyObj, msg, now, iat, OneSig(KeyAlg)))

SignAgainAct == SignCall({OneSig(KeyAlg)})

SignCozeRawAgainAct == SignCozeRawCall({OneSig(KeyAlg)})

NextRevoke ==
    \/ RevokeAct
    \/ SignAgainAct
    \/ SignCozeRawAgainAct
    \/ VerifyAct

SpecRevoke == InitRevoke /\ [][NextRevoke]_vars

----------------------------------------------------------------------------
(* Revoke step by step, with calls of Sign on the same key in between *)

\* fn is the await at which Revoke is suspended ("" when no Revoke runs),
\* arg holds Revoke's locals: prevRvk, the coze it builds, and whether the
\* key was revoked when Revoke was called. ret is the last call made and
\* what it has returned or thrown so far.

\* Revoke up to its first suspension: the coze is built, cozeKey.rvk is
\* deleted, Sign is entered, passes its IsRevoked test on the key without
\* rvk, sets pay.alg and awaits Thumbprint
RevokeCallAct ==
    /\ fn = ""
    /\ ~isEmpty(keyObj)
    /\ \E msg \in RevokeMsgs, now \in TimeSet :
        /\ keyObj' = ObjDelete(keyObj, "rvk")
        /\ arg' = [prevRvk |-> ObjGet(keyObj, "rvk"),
                   wasRevoked |-> IsRevoked(keyObj),
                   coze |-> [pay |-> ObjSet(
                                ObjSet(IF ~isEmpty(msg)
                                       THEN JObj(<< <<"msg", msg>> >>)
                                       ELSE JObj(<<>>),
                                       "rvk", JNum(now)),
                                "alg", ObjGet(keyObj, "alg")),
                             sig |-> JUndef]]
    /\ fn' = "Thumbprint"
    /\ ret' = [op |-> "Revoke", val |-> JUndef, native |-> FALSE]
    /\ UNCHANGED <<cozeObj, signed, hist, res>>

\* Revoke throws out of its await of Sign: cozeKey.rvk stays deleted
RevokeThrows(e) ==
    /\ fn' = ""
    /\ ret' = [op |-> "Revoke", val |-> e, native |-> FALSE]
    /\ UNCHANGED <<keyObj, cozeObj, signed, hist, arg, res>>

\* Sign resumes with the thumbprint, sets pay.tmb and pay.iat and awaits
\* SignPay
RevokeThumbprintAct ==
    LET Resume(tmb) ==
            IF IsErr(tmb) THEN RevokeThrows(tmb)
            ELSE \E iat \in TimeSet :
                    /\ ObjGet(arg.coze.pay, "rvk")[2] <= iat
                    /\ arg' = [arg EXCEPT !.coze.pay =
                                  ObjSet(ObjSet(@, "tmb", tmb), "iat",
                                         JNum(iat))]
                    /\ fn' = "SignPay"
                    /\ UNCHANGED <<keyObj, cozeObj, ret, signed, hist, res>>
    IN  fn = "Thumbprint" /\ Resume(Thumbprint(keyObj))

\* Sign resumes with the signature, sets coze.sig and returns; Revoke
\* awaits it
RevokeSignPayAct ==
    LET Resume(sig) ==
            IF IsErr(sig.val) THEN RevokeThrows(sig.val)
            ELSE /\ arg' = [arg EXCEPT !.coze.sig = sig.val]
                 /\ signed' = sig.produced
                 /\ fn' = "Sign"
                 /\ UNCHANGED <<keyObj, cozeObj, ret, hist, res>>
    IN  /\ fn = "SignPay"
        /\ Resume(SignPay(JSONstringify(arg.coze.pay), keyObj,
                          OneSig(KeyAlg)))

\* Revoke resumes with the signed coze, sets cozeKey.rvk and returns
RevokeReturnAct ==
    /\ fn = "Sign"
    /\ keyObj' = ObjSet(keyObj, "rvk",
                        IF arg.prevRvk # JUndef THEN arg.prevRvk
                        ELSE ObjGet(arg.coze.pay, "rvk"))
    /\ cozeObj' = arg.coze
    /\ fn' = ""
    /\ ret' = [op |-> "Revoke", val |-> Ok, native |-> FALSE]
    /\ hist' = [hist EXCEPT !.revokeReturned = TRUE]
    /\ UNCHANGED <<signed, arg, res>>

\* another caller's Sign on the same key object, run while Revoke is
\* suspended or while no Revoke runs; hist.field is where Revoke stood
SignInterleavedAct ==
    LET Called(r) ==
            /\ cozeObj' = r.coze
            /\ ret' = [op |-> "Sign", val |-> r.val, native |-> FALSE]
            /\ hist' = [hist EXCEPT !.field = fn]
            /\ UNCHANGED <<keyObj, signed, fn, arg, res>>
    IN  \E pay \in Pays, now \in TimeSet :
            Called(Sign([pay |-> pay, sig |-> JUndef], keyObj, JUndef, now,
                        OneSig(KeyAlg)))

NextWindow ==
    \/ RevokeCallAct
    \/ RevokeThumbprintAct
    \/ RevokeSignPayAct
    \/ RevokeReturnAct
    \/ SignInterleavedAct

SpecWindow == InitRevoke /\ [][NextWindow]_vars

----------------------------------------------------------------------------
(* Canonical base-64 decoding of any short string *)

\* the strings decoded have at most MaxB64Len characters
MaxB64Len == 3

B64Chars == {"A", "Q", "8", "-", "_", "+", "/", "="}

B64Strings == UNION {[1..n -> B64Chars] : n \in 0..MaxB64Len}

InitPure(args) ==
    /\ keyObj = JObj(<<>>)
    /\ cozeObj = NoCoze
    /\ ret = [op |-> "none", val |-> JUndef, native |-> FALSE]
    /\ signed = {}
    /\ hist = NoHist
    /\ fn = ""
    /\ arg \in args
    /\ res = JUndef

\* the function `name` has returned or thrown `value`
Returned(name, value) ==
    /\ fn = ""
    /\ fn' = name
    /\ res' = value
    /\ UNCHANGED <<keyObj, cozeObj, ret, signed, hist, arg>>

InitB64 == InitPure(B64Strings)

B64ToUint8ArrayAct == Returned("B64ToUint8Array", B64ToUint8Array(arg))

B64uToArrayBufferAct == Returned("B64uToArrayBuffer", B64uToArrayBuffer(arg))

NextB64 ==
    \/ B64ToUint8ArrayAct
    \/ B64uToArrayBufferAct

SpecB64 == InitB64 /\ [][NextB64]_vars

----------------------------------------------------------------------------
(* Canonicalisation of any small object by any short canon *)

\* a canon names at most MaxCanonLen fields
MaxCanonLen == 2

FieldNames == {"a", "b", "1"}

RECURSIVE ObjectOf(_, _)
\* the object whose fields are created in the order of `names`
ObjectOf(names, i) ==
    IF i = 0 THEN JObj(<<>>)
    ELSE ObjSet(ObjectOf(names, i - 1), names[i], JStr(names[i]))

CanonObjects ==
    {ObjectOf(names, Len(names)) :
        names \in {s \in UNION {[1..n -> FieldNames] :
                                   n \in 0..Cardinality(FieldNames)} :
                      \A i, j \in 1..Len(s) : i # j => s[i] # s[j]}}

CanonLists ==
    {JUndef, JArr(<<>>)}
    \cup {JArr(c) : c \in UNION {[1..n -> FieldNames] : n \in 1..MaxCanonLen}}

InitCanon == InitPure(CanonObjects \X CanonLists)

CanonicalAct == Returned("Canonical", Canonical(arg[1], arg[2]))

CanonicalSAct == Returned("CanonicalS", CanonicalS(arg[1], arg[2]))

NextCanon ==
    \/ CanonicalAct
    \/ CanonicalSAct

SpecCanon == InitCanon /\ [][NextCanon]_vars

----------------------------------------------------------------------------
(* A batch of cozies is collected and verified with VerifyCozeArray *)

\* a batch holds at most MaxBatch cozies
MaxBatch == 3

BatchKey == KeyOf(JStr("ES256"), TRUE, JUndef)

BatchPays ==
    {JObj(<< <<"msg", JStr("First")>> >>),
     JObj(<< <<"msg", JStr("Second")>> >>)}

ElementKinds ==
    {"signed", "encapsulated", "bad signature", "encapsulated bad signature",
     "other tmb", "malformed sig"}

\* what is put into the batch: the signed coze c, c inside {coze: c}, c
\* with the last byte of its signature changed, the same inside {coze: c},
\* c with another thumbprint in its payload, c with a signature text that
\* is not base 64
ElementOf(kind, c) ==
    CASE kind = "signed" -> c
      [] kind = "encapsulated" -> [coze |-> c]
      [] kind = "bad signature" ->
            [c EXCEPT !.sig = ChangedSig(B64uToArrayBuffer(c.sig[2])[2],
                                         SigSize(KeyAlg)[2], 1)]
      [] kind = "encapsulated bad signature" ->
            [coze |-> [c EXCEPT !.sig =
                          ChangedSig(B64uToArrayBuffer(c.sig[2])[2],
                                     SigSize(KeyAlg)[2], 1)]]
      [] kind = "other tmb" ->
            [c EXCEPT !.pay = ObjSet(c.pay, "tmb",
                                     Altered(ObjGet(c.pay, "tmb")))]
      [] kind = "malformed sig" -> [c EXCEPT !.sig = JB64(<<"A">>)]

InitBatch ==
    /\ keyObj = BatchKey
    /\ cozeObj = NoCoze
    /\ ret = [op |-> "none", val |-> JUndef, native |-> FALSE]
    /\ signed = {}
    /\ hist = NoHist
    /\ fn = ""
    /\ arg = JArr(<<>>)
    /\ res = JUndef

\* a payload is signed with Sign, the clock reading 1, and the coze joins
\* the batch
PushAct ==
    LET Pushed(kind, r) ==
            /\ arg' = JArr(Append(arg[2], ElementOf(kind, r.coze)))
            /\ signed' = signed \cup r.produced
            /\ UNCHANGED <<keyObj, cozeObj, ret, hist, fn, res>>
    IN  /\ fn = ""
        /\ Len(arg[2]) < MaxBatch
        /\ \E pay \in BatchPays :
               LET PushedAny(r) == \E kind \in ElementKinds : Pushed(kind, r)
               IN  PushedAny(Sign([pay |-> pay, sig |-> JUndef], keyObj,
                                  JUndef, 1, OneSig(KeyAlg)))

VerifyCozeArrayAct ==
    Returned("VerifyCozeArray", VerifyCozeArray(arg, keyObj, signed))

\* the only coze of the batch is given without its array
VerifyCozeArrayOfCozeAct ==
    /\ Len(arg[2]) = 1
    /\ "pay" \in DOMAIN arg[2][1]
    /\ Returned("VerifyCozeArrayOfCoze",
                VerifyCozeArray(<<"coze", arg[2][1]>>, keyObj, signed))

NextBatch ==
    \/ PushAct
    \/ VerifyCozeArrayAct
    \/ VerifyCozeArrayOfCozeAct

SpecBatch == InitBatch /\ [][NextBatch]_vars

----------------------------------------------------------------------------
(* Thumbprint, IsRevoked and Correct on any key object *)

XOf(alg) == JB64(ArrayBufferTo64ut(PubBytes(alg)))

DOf(alg) == JB64(ArrayBufferTo64ut(DBytes(alg)))

\* texts for x: of the key the primitive holds for P-256 and for P-384; too
\* short; of the right length for ES256 but not canonical (its last
\* character carries bits that no byte takes); of the right length for
\* ES256 but of no key the primitive imports; of the length of an Ed25519 x
KeyXs ==
    {JUndef, XOf(JStr("ES256")), XOf(JStr("ES384")), JB64(<<"A", "A", "A">>),
     JB64([XOf(JStr("ES256"))[2] EXCEPT ![86] = "B"]),
     JB64([XOf(JStr("ES256"))[2] EXCEPT ![1] = "_"]),
     JB64(SubSeq(XOf(JStr("ES256"))[2], 1, 43))}

\* texts for d: of the primitive's keys, and one that belongs to no x
KeyDs ==
    {JUndef, DOf(JStr("ES256")), DOf(JStr("ES384")),
     JB64([DOf(JStr("ES256"))[2] EXCEPT ![1] = "_"])}

KeyAlgs ==
    {JUndef, JStr("ES256"), JStr("ES384"), JStr("Ed25519"), JStr("SHA-256"),
     JStr("foo")}

\* values for tmb: the thumbprint of alg and x where there is one, a text
\* of the length of a SHA-256 thumbprint, a shorter text
KeyTmbs(alg, x) ==
    {JUndef, JStr("cLj8vsYtMBwYkzoFVZHBZo6SNL8wSdCIjCKAwXNuhOk"),
     JStr("cLj8vsYtMBwYkzoFVZHBZo6SNL8wSdCIjCKAwXNuhO")}
    \cup {t \in {Thumbprint(JObj(<< <<"alg", alg>>, <<"x", x>> >>))} :
              ~IsErr(t)}

\* keys of every plausibility
CorrectKeys ==
    {JObj(SelectSeq(<< <<"alg", alg>>, <<"x", x>>, <<"d", d>>,
                       <<"tmb", tmb>> >>, IsDefinedPair)) :
        <<alg, x, d, tmb>> \in
            {q \in KeyAlgs \X KeyXs \X KeyDs \X
                    UNION {KeyTmbs(a, v) : a \in KeyAlgs, v \in KeyXs} :
                q[4] \in KeyTmbs(q[1], q[2])}}

RvkTable ==
    {JUndef, JNum(1), JNum(3), JStr("true"), JBool(TRUE), JNum(0),
     JNum(0 - 1), JStr("false"), JBool(FALSE)}

RvkKeys == {KeyOf(JStr("ES256"), TRUE, rvk) : rvk \in RvkTable}

TmbFields == {"alg", "x", "kid", "rvk", "0"}

KidValues == {JStr("My Cyphr.me Key."), JStr("Zami's Majuscule Key.")}

RECURSIVE KeyWith(_, _, _, _)
\* the key whose fields are created in the order of `names`
KeyWith(names, alg, kid, i) ==
    IF i = 0 THEN JObj(<<>>)
    ELSE ObjSet(KeyWith(names, alg, kid, i - 1), names[i],
                CASE names[i] = "alg" -> alg
                  [] names[i] = "x" -> XOf(alg)
                  [] names[i] = "kid" -> kid
                  [] names[i] = "rvk" -> JNum(1)
                  [] OTHER -> JStr("extra"))

\* keys with any of the fields, created in any order
TmbKeys ==
    {KeyWith(names, alg, kid, Len(names)) :
        names \in {q \in UNION {[1..n -> TmbFields] :
                                    n \in 0..Cardinality(TmbFields)} :
                       \A i, j \in 1..Len(q) : i # j => q[i] # q[j]},
        alg \in {JStr("ES256"), JStr("ES384")},
        kid \in KidValues}

KeyInputs == CorrectKeys \cup RvkKeys \cup TmbKeys

InitKey == InitPure(KeyInputs)

ThumbprintAct == Returned("Thumbprint", Thumbprint(arg))

IsRevokedAct == Returned("IsRevoked", JBool(IsRevoked(arg)))

\* the signatures crypto.subtle.sign may return to Correct: S next to 0 and
\* S = n >> 1
CorrectSigs(alg) ==
    IF alg \notin SignAlgs THEN {<<>>}
    ELSE {OneSig(alg),
          NativeR(alg) \o bigIntToArrayBuffer(SigSize(alg)[2] \div 2,
                                              Big(1, halfOrder(alg)))}

\* ret.native tells whether Correct verified a signature it had made
CorrectAct ==
    LET Corrected(r) ==
            /\ fn = ""
            /\ fn' = "Correct"
            /\ res' = r.val
            /\ ret' = [op |-> "Correct", val |-> r.val,
                       native |-> r.roundTrip]
            /\ UNCHANGED <<keyObj, cozeObj, signed, hist, arg>>
    IN  \E nsig \in CorrectSigs(ObjGet(arg, "alg")) :
            Corrected(Correct(arg, nsig))

\* ret.native tells whether Valid gave a signature it had made to VerifyPay
ValidAct ==
    LET Validated(r) ==
            /\ fn = ""
            /\ fn' = "Valid"
            /\ res' = r.val
            /\ ret' = [op |-> "Valid", val |-> r.val, native |-> r.roundTrip]
            /\ UNCHANGED <<keyObj, cozeObj, signed, hist, arg>>
    IN  \E nsig \in CorrectSigs(ObjGet(arg, "alg")) :
            Validated(Valid(arg, nsig))

NextKey ==
    \/ ThumbprintAct
    \/ IsRevokedAct
    \/ CorrectAct
    \/ ValidAct

SpecKey == InitKey /\ [][NextKey]_vars

----------------------------------------------------------------------------
(* Meta on any coze and alg parameter *)

\* payloads given to Meta: none, the empty one, without and with alg, with
\* the fields Meta copies
MetaPays ==
    {JUndef, JObj(<<>>),
     JObj(<< <<"msg", JStr("Coze Rocks")>> >>),
     JObj(<< <<"alg", JStr("ES256")>> >>),
     JObj(<< <<"msg", JStr("Coze Rocks")>>, <<"alg", JStr("ES256")>> >>),
     JObj(<< <<"msg", JStr("Coze Rocks")>>, <<"alg", JStr("ES384")>>,
             <<"iat", JNum(1)>> >>),
     JObj(<< <<"msg", JStr("Coze Rocks")>>, <<"alg", JStr("ES256")>>,
             <<"iat", JNum(1)>>,
             <<"tmb", JStr("cLj8vsYtMBwYkzoFVZHBZo6SNL8wSdCIjCKAwXNuhOk")>>,
             <<"typ", JStr("cyphr.me/msg")>> >>),
     JObj(<< <<"typ", JStr("cyphr.me/msg")>>, <<"iat", JNum(1)>> >>)}

MetaSigs ==
    {JUndef, JB64(ArrayBufferTo64ut(OneSig(JStr("ES256"))))}

MetaAlgs ==
    {JUndef, JStr("ES256"), JStr("ES384"), JStr("SHA-256"), JStr("foo")}

InitMeta ==
    InitPure({<<[pay |-> pay, sig |-> sig], alg>> :
                  pay \in MetaPays, sig \in MetaSigs, alg \in MetaAlgs})

MetaAct == Returned("Meta", Meta(arg[1], arg[2]))

NextMeta == MetaAct

SpecMeta == InitMeta /\ [][NextMeta]_vars

----------------------------------------------------------------------------
(* The registry on every identifier of Algs and on others *)

SigAlgs ==
    {JStr("ES224"), JStr("ES256"), JStr("ES384"), JStr("ES512"),
     JStr("Ed25519"), JStr("Ed25519ph"), JStr("Ed448")}

HashAlgs ==
    {JStr("SHA-224"), JStr("SHA-256"), JStr("SHA-384"), JStr("SHA-512"),
     JStr("SHA3-224"), JStr("SHA3-256"), JStr("SHA3-384"), JStr("SHA3-512"),
     JStr("SHAKE128"), JStr("SHAKE256")}

\* identifiers that are not algs of the registry: the placeholder of Algs,
\* a curve name, a lower-case name, the empty text, undefined
OtherAlgs ==
    {JStr("UnknownAlg"), JStr("P-256"), JStr("es256"), JStr(""), JStr("foo"),
     JUndef}

InitAlg == InitPure(SigAlgs \cup HashAlgs \cup OtherAlgs)

NextAlg ==
    \/ Returned("Params", Params(arg))
    \/ Returned("Genus", Genus(arg))
    \/ Returned("Family", Family(arg))
    \/ Returned("HashAlg", HashAlg(arg))
    \/ Returned("HashSize", HashSize(arg))
    \/ Returned("SigSize", SigSize(arg))
    \/ Returned("XSize", XSize(arg))
    \/ Returned("DSize", DSize(arg))
    \/ Returned("Curve", Curve(arg))
    \/ Returned("Use", Use(arg))
    \/ Returned("CurveOrder", CurveOrder(arg))
    \/ Returned("CurveHalfOrder", CurveHalfOrder(arg))

SpecAlg == InitAlg /\ [][NextAlg]_vars

----------------------------------------------------------------------------
(* Claims checked under Spec: round trip, tampering, the low-S rule *)

\* the bytes of the coze's signature, and its S component as a magnitude
SigBytes == B64uToArrayBuffer(cozeObj.sig[2])[2]

SigS ==
    Strip(SubSeq(SigBytes, (SigSize(KeyAlg)[2] \div 2) + 1,
                 SigSize(KeyAlg)[2]))

SBelowHalf == MagLess(SigS, halfOrder(KeyAlg))

\* what crypto.subtle.verify answers for the coze as it stands
NativeAccepts ==
    subtleVerify(FromCozeKey(keyObj, TRUE), SigBytes,
                 SToArrayBuffer(JSONstringify(cozeObj.pay)), signed)

\* C1: a coze that Sign has signed and that nothing has changed since
\* verifies with the same key: Verify returns true, whatever (r, s) pair the
\* primitive returned to Sign.
C1_RoundTrip ==
    (ret.op = "Verify" /\ hist.origin = "Sign" /\ hist.tamper = "none")
        => ret.val = JBool(TRUE)

\* C2 as stated: once a byte of the payload or of the decoded signature of
\* a verifying coze has been changed, Verify returns false; it neither
\* returns true nor throws.
C2_TamperReturnsFalse ==
    (ret.op = "Verify" /\ hist.tamper \in {"pay", "sig"})
        => ret.val = JBool(FALSE)

\* C2 amended: once a byte of the payload or of the decoded signature of a
\* verifying coze has been changed, Verify never returns true: it returns
\* false, or, when the byte lies in pay.alg or in pay.tmb, it throws the
\* mismatch error of that field.
C2_TamperRejected ==
    (ret.op = "Verify" /\ hist.tamper \in {"pay", "sig"})
        => \/ ret.val = JBool(FALSE)
           \/ /\ hist.tamper = "pay"
              /\ hist.field = "alg"
              /\ ret.val = Err("VerifyCoze: Coze key alg mismatch")
           \/ /\ hist.tamper = "pay"
              /\ hist.field = "tmb"
              /\ ret.val = Err("VerifyCoze: Coze key tmb mismatch")

\* a coze verified, a byte of its msg changed, verification answering false
C2_Witness ==
    /\ ret.op = "Verify"
    /\ hist.tamper = "pay"
    /\ hist.field = "msg"
    /\ ret.val = JBool(FALSE)

\* C5: the signature Sign or SignCozeRaw has just returned passes the
\* low-S test verification applies (S below the half order), for every S
\* the primitive can return.
C5_SignEmitsLowS ==
    (ret.op \in {"Sign", "SignCozeRaw"} /\ ret.val = Ok)
        => IsSigLowS(KeyAlg, SigBytes) = JBool(TRUE)

\* C6: when the S of the signature is not below the half order of the
\* curve, verification answers false and crypto.subtle.verify has not been
\* consulted, also when it would accept the signature.
C6_HighSRejectedBeforeNative ==
    (ret.op = "Verify" /\ hist.tamper # "pay" /\ ~SBelowHalf)
        => (ret.val = JBool(FALSE) /\ ~ret.native)

\* S replaced by n - S, a signature the primitive accepts, answered false
\* without the primitive
C6_Witness ==
    /\ ret.op = "Verify"
    /\ hist.tamper = "twin"
    /\ ~SBelowHalf
    /\ NativeAccepts
    /\ ret.val = JBool(FALSE)
    /\ ~ret.native

\* C7: with the S of a verifying signature replaced by n - S, Verify
\* returns false; SigToLowS then gives back exactly the original signature
\* text (same R, same width), and Verify returns true again.
C7_LowSRoundTrip ==
    /\ (hist.tamper = "twin" /\ ret.op = "Verify") => ret.val = JBool(FALSE)
    /\ hist.tamper = "relow" => cozeObj.sig = hist.origSig
    /\ (hist.tamper = "relow" /\ ret.op = "Verify") => ret.val = JBool(TRUE)

\* substituted, normalised again and verified
C7_Witness ==
    /\ hist.tamper = "relow"
    /\ ret.op = "Verify"
    /\ ret.val = JBool(TRUE)
    /\ cozeObj.sig = hist.origSig

----------------------------------------------------------------------------
(* Claims checked under SpecRevoke *)

\* C3: once Revoke has returned for the key, whatever its rvk was before,
\* every later Sign throws the revoked-key error and sets no signature.
C3_RevokeGate ==
    (ret.op = "Sign" /\ hist.revokeReturned)
        => /\ ret.val = Err("SignCoze: Cannot sign with revoked key.")
           /\ cozeObj.sig = JUndef

\* C4: once the key's rvk has held a positive timestamp, IsRevoked(key)
\* is true in every later state, whether the calls made succeeded or threw.
C4_RevocationPermanent == hist.rvkWasPositive => IsRevoked(keyObj)

----------------------------------------------------------------------------
(* Claims checked under SpecB64 and SpecCanon *)

\* C8: a string the decoder accepts is exactly the URL-safe, padding-free
\* encoding of the bytes it decodes to (so that no two accepted strings
\* decode to the same bytes).
C8_AcceptsOnlyCanonical ==
    (fn # "" /\ ~IsErr(res)) => arg = ArrayBufferTo64ut(res[2])

\* C9: with a non-empty canon Canonical returns an object whose fields are
\* those of the canon, in the canon's order, each with the input's value;
\* with an empty or absent canon it returns the input itself.
C9_CanonicalFields ==
    fn = "Canonical" =>
        IF isEmpty(arg[2]) THEN res = arg[1]
        ELSE ~HasDuplicates(arg[2][2]) =>
                 /\ ObjKeys(res) = arg[2][2]
                 /\ \A i \in 1..Len(res[2]) :
                        res[2][i][2] = ObjGet(arg[1], res[2][i][1])

\* C10: a canon that names a field twice makes Canonical and CanonicalS
\* fail with the duplicate-field error; no object is returned.
C10_DuplicateCanonFails ==
    (fn \in {"Canonical", "CanonicalS"} /\ ~isEmpty(arg[2])
     /\ HasDuplicates(arg[2][2]))
        => res = Err("Canonical: Canon cannot have duplicate fields.")

\* the two objects hold the same field/value pairs, in whatever order
SamePairs(o1, o2) ==
    {o1[2][i] : i \in 1..Len(o1[2])} = {o2[2][i] : i \in 1..Len(o2[2])}

\* C11 as stated: for any duplicate-free canon that is given, the empty
\* array included, CanonicalS gives one output for all objects that hold the
\* same field/value pairs, whatever the order their fields were created in.
C11_AnyExplicitCanon ==
    (fn = "CanonicalS" /\ arg[2] # JUndef /\ ~HasDuplicates(arg[2][2]))
        => \A o \in CanonObjects :
               SamePairs(o, arg[1]) => CanonicalS(o, arg[2]) = res

\* C11 amended: for any duplicate-free canon that names at least one field,
\* CanonicalS gives one output for all objects that hold the same
\* field/value pairs, whatever the order their fields were created in.
C11_CanonicalSDeterministic ==
    (fn = "CanonicalS" /\ ~isEmpty(arg[2]) /\ ~HasDuplicates(arg[2][2]))
        => \A o \in CanonObjects :
               SamePairs(o, arg[1]) => CanonicalS(o, arg[2]) = res

\* CanonicalS has returned for an object of several fields and a canon of
\* two; the same fields created in another order give the same text
C11_Witness ==
    /\ fn = "CanonicalS"
    /\ ~isEmpty(arg[2])
    /\ Len(arg[2][2]) = 2
    /\ ~HasDuplicates(arg[2][2])
    /\ \E o \in CanonObjects :
           /\ o # arg[1]
           /\ SamePairs(o, arg[1])
           /\ CanonicalS(o, arg[2]) = res

----------------------------------------------------------------------------
(* Claims about the comparison of the payload's alg and tmb with the key *)

\* C12: when pay.alg is not empty and differs from key.alg, or pay.tmb is
\* not empty and differs from key.tmb, Verify throws the mismatch error of
\* that field and crypto.subtle.verify has not been consulted; when the
\* payload has neither field, Verify returns the boolean answer of the
\* verification of the signature.
C12_VerifyKeyMismatch ==
    ret.op = "Verify" =>
        /\ (/\ ~isEmpty(ObjGet(cozeObj.pay, "alg"))
            /\ ObjGet(cozeObj.pay, "alg") # ObjGet(keyObj, "alg"))
               => /\ ret.val = Err("VerifyCoze: Coze key alg mismatch")
                  /\ ~ret.native
        /\ (/\ ObjGet(cozeObj.pay, "alg") = ObjGet(keyObj, "alg")
            /\ ~isEmpty(ObjGet(cozeObj.pay, "tmb"))
            /\ ObjGet(cozeObj.pay, "tmb") # ObjGet(keyObj, "tmb"))
               => /\ ret.val = Err("VerifyCoze: Coze key tmb mismatch")
                  /\ ~ret.native
        /\ (~HasProp(cozeObj.pay, "alg") /\ ~HasProp(cozeObj.pay, "tmb"))
               => ret.val = JBool(/\ IsSigLowS(KeyAlg, SigBytes) = JBool(TRUE)
                                  /\ NativeAccepts)

\* a verified coze whose pay.tmb was changed afterwards: Verify throws the
\* tmb mismatch error without the primitive
C12_Witness ==
    /\ ret.op = "Verify"
    /\ hist.tamper = "pay"
    /\ hist.field = "tmb"
    /\ ObjGet(cozeObj.pay, "tmb") # ObjGet(keyObj, "tmb")
    /\ ret.val = Err("VerifyCoze: Coze key tmb mismatch")
    /\ ~ret.native

\* C13: when the payload given to Sign carries an alg or a tmb that is not
\* the key's, Sign throws and signs nothing; it does not return a coze in
\* which the value was replaced.
C13_SignRejectsConflict ==
    (ret.op = "Sign" /\ hist.conflict)
        => (IsErr(ret.val) /\ cozeObj.sig = JUndef)

\* C14 as stated: a coze that the primitive accepts and whose S is low
\* verifies as true with the same key; once one bit of its pay.tmb has been
\* changed, so that it differs from the key's tmb, Verify returns false and
\* does not throw.
C14_AlteredTmbReturnsFalse ==
    ret.op = "Verify" =>
        /\ (hist.tamper = "none" /\ SBelowHalf /\ NativeAccepts)
               => ret.val = JBool(TRUE)
        /\ (hist.tamper = "pay" /\ hist.field = "tmb")
               => ret.val = JBool(FALSE)

\* C14 amended: a coze that the primitive accepts and whose S is low
\* verifies as true with the same key; with a byte of its signature changed
\* Verify returns false; with its pay.tmb changed, so that it differs from
\* the key's tmb, Verify throws the tmb mismatch error.
C14_AlteredSigReturnsFalse ==
    ret.op = "Verify" =>
        /\ (hist.tamper = "none" /\ SBelowHalf /\ NativeAccepts)
               => ret.val = JBool(TRUE)
        /\ hist.tamper = "sig" => ret.val = JBool(FALSE)
        /\ (hist.tamper = "pay" /\ hist.field = "tmb")
               => ret.val = Err("VerifyCoze: Coze key tmb mismatch")

\* a verified coze, the last byte of its signature changed, answered false
\* after the primitive was consulted
C14_Witness ==
    /\ ret.op = "Verify"
    /\ hist.verified
    /\ hist.tamper = "sig"
    /\ cozeObj.sig # hist.origSig
    /\ SBelowHalf
    /\ ret.native
    /\ ret.val = JBool(FALSE)

----------------------------------------------------------------------------
(* Claims checked under SpecBatch *)

\* what Verify answers or throws for element i of the batch
VerifyOf(i) == Verify(Unwrapped(arg[2][i]), keyObj, signed).val

Verifying == {i \in 1..Len(arg[2]) : VerifyOf(i) = JBool(TRUE)}

Throwing == {i \in 1..Len(arg[2]) : IsErr(VerifyOf(i))}

\* C15: for a batch whose elements Verify answers for, N of them with true
\* and M with false, VerifyCozeArray returns VerifiedCount = N and
\* FailedCount = M, and VerifiedAll is true exactly when M = 0 and N >= 1.
C15_BatchAggregation ==
    (fn = "VerifyCozeArray" /\ Throwing = {})
        => /\ Tag(res) = "rec"
           /\ res[2].VerifiedCount = Cardinality(Verifying)
           /\ res[2].FailedCount = Len(arg[2]) - Cardinality(Verifying)
           /\ res[2].VerifiedAll =
                  (/\ Len(arg[2]) - Cardinality(Verifying) = 0
                   /\ Cardinality(Verifying) >= 1)

\* C16: for every array VerifyCozeArray returns the record of the whole
\* batch: each element is counted once, and an element for which Verify
\* throws (another tmb, a malformed signature) is one of the failed ones.
C16_BatchCompletes ==
    fn = "VerifyCozeArray"
        => /\ Tag(res) = "rec"
           /\ res[2].VerifiedCount + res[2].FailedCount = Len(arg[2])
           /\ \A i \in Throwing :
                  \E k \in 1..Len(res[2].FailedPosition) :
                      res[2].FailedPosition[k] = i - 1

\* the elements for which Verify answers false
Failing == {i \in 1..Len(arg[2]) : VerifyOf(i) = JBool(FALSE)}

----------------------------------------------------------------------------
(* Claims checked under SpecKey *)

\* C17: the thumbprint is the digest, with the hash of the alg, of the text
\* {"alg":...,"x":...} and so depends on nothing but alg and x: not on the
\* order of the key's fields nor on its other fields; without alg or
\* without x Thumbprint throws.
C17_ThumbprintStable ==
    fn = "Thumbprint" =>
        res = IF isEmpty(ObjGet(arg, "alg")) \/ isEmpty(ObjGet(arg, "x"))
              THEN Err("Coze.Thumbprint: alg or x is empty.")
              ELSE IF IsErr(HashAlg(ObjGet(arg, "alg")))
              THEN HashAlg(ObjGet(arg, "alg"))
              ELSE <<"digest64", HashAlg(ObjGet(arg, "alg")),
                     <<"json", << <<"alg", ObjGet(arg, "alg")>>,
                                  <<"x", ObjGet(arg, "x")>> >> >> >>

\* the thumbprint of a key with five fields, x created before alg and an
\* integer-like extra field listed first
C17_Witness ==
    /\ fn = "Thumbprint"
    /\ Tag(res) = "digest64"
    /\ Len(arg[2]) = 5
    /\ ObjKeys(arg)[1] = "0"
    /\ \E i, j \in 1..5 :
           i < j /\ ObjKeys(arg)[i] = "x" /\ ObjKeys(arg)[j] = "alg"

\* C18: IsRevoked is true when rvk is a positive integer, the string "true"
\* or the boolean true, and false, nothing thrown, when rvk is 0, negative,
\* "false", false or absent.
C18_IsRevokedTable ==
    fn = "IsRevoked" =>
        res = JBool(\/ /\ Tag(ObjGet(arg, "rvk")) = "num"
                       /\ ObjGet(arg, "rvk")[2] > 0
                    \/ ObjGet(arg, "rvk") = JStr("true")
                    \/ ObjGet(arg, "rvk") = JBool(TRUE))

\* C19: for every key object Correct returns a boolean; it throws nothing.
C19_CorrectNeverThrows == fn = "Correct" => Tag(res) = "bool"

\* C20: when the key has a private component d and Correct returns true,
\* Correct has signed with the key and verified that signature, with
\* success, whichever of tmb and x the key has.
C20_CorrectRoundTrip ==
    (fn = "Correct" /\ ~isEmpty(ObjGet(arg, "d")) /\ res = JBool(TRUE))
        => (ret.op = "Correct" /\ ret.native)

----------------------------------------------------------------------------
(* Claims checked under SpecKey: Valid *)

ValidMsg ==
    JStr("7AtyaCHO2BAG06z0W1tOQlZFWbhxGgqej4k9-HWP3DE-zshRbrE-69DIfgY704_FDYez7h_rEI1WQVKhv5Hd5Q")

\* the signing step of Valid fails whatever the primitive returns
ValidSignFails ==
    \A nsig \in CorrectSigs(ObjGet(arg, "alg")) :
        IsErr(SignPay(ValidMsg, arg, nsig).val)

\* the signing step and the verifying step of Valid both succeed
ValidRoundTrip ==
    \E nsig \in CorrectSigs(ObjGet(arg, "alg")) :
        LET Verifies(sig) ==
                /\ ~IsErr(sig.val)
                /\ VerifyPay(ValidMsg, arg, sig.val, sig.produced).val
                   = JBool(TRUE)
        IN  Verifies(SignPay(ValidMsg, arg, nsig))

\* C21: Valid returns a boolean and never throws; it returns true only if
\* key.d is present and signing the fixed message followed by verifying it
\* with the same key succeeds; any failure of the signing step (the import
\* of the key included) gives false.
C21_ValidTotal ==
    fn = "Valid" =>
        /\ Tag(res) = "bool"
        /\ res = JBool(TRUE) =>
               /\ ~isEmpty(ObjGet(arg, "d"))
               /\ ret.native
               /\ ValidRoundTrip
        /\ ValidSignFails => res = JBool(FALSE)

\* Valid returned true for one key and false, after a failed import, for
\* another
C21_Witness ==
    /\ fn = "Valid"
    /\ res = JBool(TRUE)
    /\ ret.native

C21_WitnessImportFails ==
    /\ fn = "Valid"
    /\ ~isEmpty(ObjGet(arg, "d"))
    /\ ValidSignFails
    /\ res = JBool(FALSE)

----------------------------------------------------------------------------
(* Claims checked under SpecMeta *)

\* the three failures of Meta: no pay, no alg at all, two algs that differ
MetaMustFail ==
    \/ arg[1].pay = JUndef
    \/ isEmpty(ObjGet(arg[1].pay, "alg")) /\ isEmpty(arg[2])
    \/ /\ ~isEmpty(ObjGet(arg[1].pay, "alg"))
       /\ ~isEmpty(arg[2])
       /\ ObjGet(arg[1].pay, "alg") # arg[2]

\* C22: Meta fails only when coze.pay does not exist, when neither
\* coze.pay.alg nor the alg parameter is set, or when both are set and
\* differ; the empty coze (pay is {} and sig is set) with an alg parameter
\* is accepted and yields alg, can, cad, sig and czd.
C22_MetaAcceptance ==
    fn = "Meta" =>
        /\ IsErr(res) => MetaMustFail
        /\ (arg[1].pay = JObj(<<>>) /\ arg[1].sig # JUndef /\ arg[2] # JUndef)
               => /\ Tag(res) = "meta"
                  /\ res[2].alg # JUndef
                  /\ res[2].cad # JUndef
                  /\ res[2].sig # JUndef
                  /\ res[2].czd # JUndef

\* away from the empty payload and from an alg parameter that the registry
\* does not know, Meta fails in the three cases only
C22_NonEmptyPayAcceptance ==
    (fn = "Meta" /\ arg[1].pay # JObj(<<>>) /\ arg[2] # JStr("foo")) =>
        (IsErr(res) <=> MetaMustFail)

\* Meta returned a meta object with its czd
C22_MetaReturned ==
    /\ fn = "Meta"
    /\ Tag(res) = "meta"
    /\ res[2].czd # JUndef

----------------------------------------------------------------------------
(* Claims checked under SpecAlg: the registry *)

\* b is Math.ceil(4 * n / 3): the least integer with 3 * b >= 4 * n
IsB64SizeOf(b, n) ==
    IF n = JUndef THEN b = JUndef
    ELSE /\ Tag(b) = "num"
         /\ 3 * b[2] >= 4 * n[2]
         /\ 3 * (b[2] - 1) < 4 * n[2]

Positive(v) == Tag(v) = "num" /\ v[2] > 0

C23_WitnessHash ==
    /\ fn = "Params"
    /\ arg = JStr("SHAKE128")
    /\ Tag(res) = "params"
    /\ res[2].HashSizeB64 = JNum(43)
    /\ res[2].Curve = JUndef

RegistryFunctions ==
    {"Genus", "Family", "HashAlg", "HashSize", "SigSize", "XSize", "DSize",
     "Curve", "Use", "CurveOrder", "CurveHalfOrder"}

\* C24: each of Genus, Family, HashAlg, HashSize, SigSize, XSize, DSize,
\* Curve, Use, CurveOrder and CurveHalfOrder throws for an identifier that
\* is not in the registry, and Curve, SigSize, XSize, DSize, CurveOrder and
\* CurveHalfOrder throw for a hash-only algorithm.
C24_RegistryThrows ==
    /\ (fn \in RegistryFunctions /\ arg \in OtherAlgs) => IsErr(res)
    /\ (/\ fn \in {"Curve", "SigSize", "XSize", "DSize", "CurveOrder",
                   "CurveHalfOrder"}
        /\ arg \in HashAlgs) => IsErr(res)

\* CurveOrder threw for a hash-only algorithm
C24_Witness ==
    /\ fn = "CurveOrder"
    /\ arg = JStr("SHA-256")
    /\ IsErr(res)

\* Genus threw for an identifier the registry does not hold
C24_WitnessUnknown ==
    /\ fn = "Genus"
    /\ arg = JStr("es256")
    /\ IsErr(res)

----------------------------------------------------------------------------
(* Claims checked under Spec: what Sign and SignCozeRaw leave behind *)

\* C25: SignCozeRaw never assigns pay.alg, pay.tmb or pay.iat; called
\* without a canon it leaves the payload's fields and values as they were
\* and changes coze.sig only; the key argument is not modified.
C25_RawSigningFrame ==
    ret.op = "SignCozeRaw" =>
        /\ \A f \in {"alg", "tmb", "iat"} :
               ObjGet(cozeObj.pay, f) \in {ObjGet(hist.payBefore, f), JUndef}
        /\ hist.canon = JUndef => cozeObj.pay = hist.payBefore
        /\ keyObj = hist.keyBefore

\* SignCozeRaw signed a payload given without a canon
C25_Witness ==
    /\ ret.op = "SignCozeRaw"
    /\ ret.val = Ok
    /\ hist.canon = JUndef
    /\ Tag(cozeObj.sig) = "b64"
    /\ cozeObj.pay = hist.payBefore
    /\ ObjGet(cozeObj.pay, "iat") = JUndef

\* C26: whenever Sign throws, the coze argument is left exactly as it was
\* before the call: pay.alg, pay.tmb, pay.iat, the set and order of pay's
\* fields, and coze.sig are all unchanged.
C26_SignFailureAtomic ==
    (ret.op = "Sign" /\ IsErr(ret.val)) =>
        cozeObj = [pay |-> hist.payBefore, sig |-> JUndef]

\* a failed Sign never sets coze.sig
C26_FailedSignSetsNoSig ==
    (ret.op = "Sign" /\ IsErr(ret.val)) => cozeObj.sig = JUndef

----------------------------------------------------------------------------
(* Claims checked under SpecStale: the thumbprint Verify compares *)

\* C28: whenever Verify returns true and coze.pay.tmb is present,
\* coze.pay.tmb equals the thumbprint recomputed from the verifying key's
\* alg and x, not merely the value stored in key.tmb.
C28_VerifyBindsThumbprint ==
    (/\ ret.op = "Verify"
     /\ ret.val = JBool(TRUE)
     /\ ~isEmpty(ObjGet(cozeObj.pay, "tmb")))
        => ObjGet(cozeObj.pay, "tmb") = Thumbprint(keyObj)

\* what Verify does compare: the value stored in key.tmb
C28_VerifyBindsStoredTmb ==
    (/\ ret.op = "Verify"
     /\ ret.val = JBool(TRUE)
     /\ ~isEmpty(ObjGet(cozeObj.pay, "tmb")))
        => ObjGet(cozeObj.pay, "tmb") = ObjGet(keyObj, "tmb")

----------------------------------------------------------------------------
(* Claims checked under Spec: the metadata of a signed coze *)

\* the primitive signed exactly JSON.stringify of the coze's pay
SigOverPay ==
    \E e \in signed : e.msg = SToArrayBuffer(JSONstringify(cozeObj.pay))

\* C30: every coze returned by a successful Sign has pay.alg equal to
\* key.alg, pay.tmb equal to Thumbprint(key) and pay.iat set to the signing
\* time, for every canon argument, and its sig is a signature over exactly
\* JSON.stringify of the returned pay.
C30_SignedMetadataPresent ==
    (ret.op = "Sign" /\ ret.val = Ok) =>
        /\ ObjGet(cozeObj.pay, "alg") = ObjGet(keyObj, "alg")
        /\ ObjGet(cozeObj.pay, "tmb") = Thumbprint(keyObj)
        /\ Tag(ObjGet(cozeObj.pay, "iat")) = "num"
        /\ ObjGet(cozeObj.pay, "iat")[2] \in TimeSet
        /\ SigOverPay

\* without a canon, or with a canon that lists alg, tmb and iat, the
\* metadata is present
C30_MetadataPresentWhenListed ==
    (/\ ret.op = "Sign"
     /\ ret.val = Ok
     /\ \/ hist.canon = JUndef
        \/ {"alg", "tmb", "iat"} \subseteq
               {hist.canon[2][i] : i \in 1..Len(hist.canon[2])}) =>
        /\ ObjGet(cozeObj.pay, "alg") = ObjGet(keyObj, "alg")
        /\ ObjGet(cozeObj.pay, "tmb") = Thumbprint(keyObj)
        /\ Tag(ObjGet(cozeObj.pay, "iat")) = "num"
        /\ SigOverPay

\* whatever the canon, the signature is over JSON.stringify of the
\* returned pay
C30_SigOverReturnedPay ==
    (ret.op = "Sign" /\ ret.val = Ok) => SigOverPay

----------------------------------------------------------------------------
(* Claims checked under SpecWindow: Revoke and an interleaved Sign *)

\* C27: when Revoke runs on a key that is already revoked, IsRevoked(key)
\* is false at no intermediate state of Revoke, and a Sign on the same key
\* object interleaved at any of Revoke's suspension points fails with the
\* revoked-key error.
C27_NoSigningWindow ==
    /\ (fn # "" /\ arg.wasRevoked) => IsRevoked(keyObj)
    /\ (ret.op = "Sign" /\ hist.field # "" /\ arg.wasRevoked)
           => ret.val = Err("SignCoze: Cannot sign with revoked key.")

\* outside Revoke, Sign on a revoked key fails with the revoked-key error
C27_SignGateOutsideRevoke ==
    (ret.op = "Sign" /\ hist.field = "" /\ IsRevoked(keyObj))
        => ret.val = Err("SignCoze: Cannot sign with revoked key.")

\* a Sign interleaved with the Revoke of a revoked key returned a signed coze
C27_WindowReached ==
    /\ ret.op = "Sign"
    /\ hist.field = "SignPay"
    /\ arg.wasRevoked
    /\ ret.val = Ok
    /\ Tag(cozeObj.sig) = "b64"

====
